---- MODULE Spec2Model ----
(***************************************************************************)
(* Depot HIL simulator: the discrete-time engine (engine.py), the sensor   *)
(* network (sensors.py), the vehicle registry (vehicles.py) and the depot  *)
(* controller (depot_controller.py).                                       *)
(*                                                                         *)
(* Conventions                                                             *)
(*  - Python None is NONE (-1); ids of gates, spots and chargers are       *)
(*    0..n-1 as in range(n); vehicle ids are 1, 2, ... in insertion order  *)
(*    (the code draws distinct uuid prefixes).                             *)
(*  - Probabilities and charge levels are in percent (0.05 is 5, 1.0 is    *)
(*    100). 0.2 + 12 * 0.05 >= 0.8 also holds in binary floating point,    *)
(*    so the percent arithmetic takes the same number of charging steps.   *)
(*  - A sensor name "gate_0" is the tuple <<"gate", 0>> of its             *)
(*    "_"-separated parts; the controller's split("_")[1] / int() reads    *)
(*    the second part.                                                     *)
(*  - A python dict is a function whose DOMAIN is the set of its keys; a    *)
(*    dict read in insertion order with keys 1..n is a sequence.           *)
(***************************************************************************)
EXTENDS Integers, Sequences, FiniteSets, TLC

VARIABLES
    config,            \* SimulationConfig
    pc,                \* position in run_complete_simulation
    loop_i,            \* iterations of its for loop done so far
    current_step,      \* SimulationEngine.current_step
    step_id,           \* SimulationEngine.step_id
    sensor_network,    \* SensorNetwork: gates, occupancy_sensors, chargers
    vm,                \* VehicleManager: vehicles, vehicle_positions
    depot_state,       \* DepotController.depot_state
    sensor_readings,   \* the snapshot read in the last step, in read order
    control_actions,   \* the actions process_step returned in the last step
    faults_detected,   \* SimulationEngine.faults_detected (cumulative)
    db_run,            \* the run record of the log sink
    db_log,            \* the records the last step handed to the log sink, in order
    draw_failed,       \* devices whose failed flag was set by a read-time draw
    results,           \* the local list `results` of run_complete_simulation
    returned,          \* the dict run_complete_simulation returned, once it has
    last_call          \* the last call a bench made on the registry, and its result

vars == <<config, pc, loop_i, current_step, step_id, sensor_network, vm,
          depot_state, sensor_readings, control_actions, faults_detected,
          db_run, db_log, draw_failed, results, returned, last_call>>

-----------------------------------------------------------------------------
\* Bounds of the model

\* number of gates, spots and chargers of the configured depot
NumGates == 1
NumSpots == 2
NumChargers == 2
\* largest configured max_steps
MaxSteps == 5
\* vehicles that may ever be registered in one run
MaxVehicles == 2
\* noisy occupancy reads in one run
MaxNoise == 1
\* latest scheduled failure step a configuration may name
MaxFailStep == 2
\* devices whose failed flag a read-time failure draw may set in one run
MaxDrawFailures == 1
\* max_steps of the quiet long run
LongSteps == 18

-----------------------------------------------------------------------------
\* Program constants

NONE == -1
FaultLimit == 10
InitialCharge == 20
TargetCharge == 80
ChargeRate == 5
FullCharge == 100
GateFailureRate == 1
NoiseRate == 5
ChargerFailureRate == 2
DefaultNoiseLevel == 5
DefaultArrivalRate == 30
DetectionWindow == 5
\* the second part of a sensor name that is not the text of an integer
\* ("gate_x", "spot_"): int() raises ValueError on it
NotAnInt == -2
\* ChargerSensor.start_charging(power_kw = 50.0)
DefaultPowerKw == 50

Gates == 0 .. (NumGates - 1)
Spots == 0 .. (NumSpots - 1)
Chargers == 0 .. (NumChargers - 1)

RunId == "run"

\* a timestamp column that holds no time (None); a time taken is "set"
NoTime == "none"

\* random.random() < rate: random() is in [0, 1), so the comparison can be
\* true only when rate > 0 and false only when rate < 1
RandomLess(rate) == {b \in BOOLEAN : (b => rate > 0) /\ (~b => rate < 100)}

\* dict[key] = value
DictSet(d, k, v) == [x \in (DOMAIN d) \cup {k} |-> IF x = k THEN v ELSE d[x]]

\* dict.get(key, default)
DictGet(d, k, default) == IF k \in DOMAIN d THEN d[k] ELSE default

EmptyDict == [x \in {} |-> NONE]

-----------------------------------------------------------------------------
\* sensors.py

\* f"gate_{id}", f"spot_{id}", f"charger_{id}"
SensorName(prefix, id) == <<prefix, id>>

NewGateSensor(id) ==
    [gate_id |-> id, is_open |-> FALSE, is_failed |-> FALSE,
     failure_rate |-> GateFailureRate]

NewOccupancySensor(id) ==
    [spot_id |-> id, is_occupied |-> FALSE, noise_rate |-> NoiseRate]

NewChargerSensor(id) ==
    [charger_id |-> id, is_connected |-> FALSE, is_charging |-> FALSE,
     is_failed |-> FALSE, failure_rate |-> ChargerFailureRate, power_output |-> 0]

NewSensorNetwork(num_gates, num_spots, num_chargers) ==
    [gates |-> [i \in 0 .. (num_gates - 1) |-> NewGateSensor(i)],
     occupancy_sensors |-> [i \in 0 .. (num_spots - 1) |-> NewOccupancySensor(i)],
     chargers |-> [i \in 0 .. (num_chargers - 1) |-> NewChargerSensor(i)]]

\* GateSensor.read with the outcome of its failure draw: the sensor after the
\* read and the reading
GateSensorReadForgetful(s, draw) ==
    LET s2 == [s EXCEPT !.is_failed = draw]
    IN  [sensor |-> s2,
         reading |-> [sensor_name |-> SensorName("gate", s2.gate_id),
                      sensor_type |-> "gate",
                      value |-> s2.is_open /\ ~s2.is_failed,
                      is_fault |-> s2.is_failed]]

GateSensorRead(s, draw) ==
    LET s2 == IF draw THEN [s EXCEPT !.is_failed = TRUE] ELSE s
    IN  [sensor |-> s2,
         reading |-> [sensor_name |-> SensorName("gate", s2.gate_id),
                      sensor_type |-> "gate",
                      value |-> s2.is_open /\ ~s2.is_failed,
                      is_fault |-> s2.is_failed]]

\* GateSensor.set_state
GateSensorSetState(s, is_open) ==
    IF ~s.is_failed THEN [s EXCEPT !.is_open = is_open] ELSE s

OccupancySensorReadLatching(s, noise) ==
    LET actual_reading == IF noise THEN ~s.is_occupied ELSE s.is_occupied
    IN  [sensor |-> [s EXCEPT !.is_occupied = actual_reading],
         reading |-> [sensor_name |-> SensorName("spot", s.spot_id),
                      sensor_type |-> "occupancy",
                      value |-> actual_reading,
                      is_fault |-> noise]]

\* OccupancySensor.read with the outcome of its noise draw
OccupancySensorRead(s, noise) ==
    LET actual_reading == IF noise THEN ~s.is_occupied ELSE s.is_occupied
    IN  [sensor |-> s,
         reading |-> [sensor_name |-> SensorName("spot", s.spot_id),
                      sensor_type |-> "occupancy",
                      value |-> actual_reading,
                      is_fault |-> noise]]

\* OccupancySensor.set_occupancy
OccupancySensorSetOccupancy(s, occupied) == [s EXCEPT !.is_occupied = occupied]

ChargerSensorReadFlagsOnce(s, draw) ==
    LET s2 == IF draw
              THEN [s EXCEPT !.is_failed = TRUE, !.is_charging = FALSE,
                             !.power_output = 0]
              ELSE s
        status == [connected |-> s2.is_connected,
                   charging |-> s2.is_charging /\ ~s2.is_failed,
                   power_kw |-> IF ~s2.is_failed THEN s2.power_output ELSE 0,
                   failed |-> s2.is_failed]
    IN  [sensor |-> s2,
         reading |-> [sensor_name |-> SensorName("charger", s2.charger_id),
                      sensor_type |-> "charger",
                      value |-> status,
                      is_fault |-> s2.is_failed /\ ~s.is_failed]]

\* ChargerSensor.read with the outcome of its failure draw
ChargerSensorRead(s, draw) ==
    LET s2 == IF draw
              THEN [s EXCEPT !.is_failed = TRUE, !.is_charging = FALSE,
                             !.power_output = 0]
              ELSE s
        status == [connected |-> s2.is_connected,
                   charging |-> s2.is_charging /\ ~s2.is_failed,
                   power_kw |-> IF ~s2.is_failed THEN s2.power_output ELSE 0,
                   failed |-> s2.is_failed]
    IN  [sensor |-> s2,
         reading |-> [sensor_name |-> SensorName("charger", s2.charger_id),
                      sensor_type |-> "charger",
                      value |-> status,
                      is_fault |-> s2.is_failed]]

\* ChargerSensor.connect_vehicle
ChargerSensorConnectVehicle(s) == [s EXCEPT !.is_connected = TRUE]

\* ChargerSensor.disconnect_vehicle
ChargerSensorDisconnectVehicle(s) ==
    [s EXCEPT !.is_connected = FALSE, !.is_charging = FALSE, !.power_output = 0]

ChargerSensorStartChargingUnguarded(s, power_kw) ==
    IF s.is_connected
    THEN [s EXCEPT !.is_charging = TRUE, !.power_output = power_kw]
    ELSE s

\* ChargerSensor.start_charging
ChargerSensorStartCharging(s, power_kw) ==
    IF ~s.is_failed /\ s.is_connected
    THEN [s EXCEPT !.is_charging = TRUE, !.power_output = power_kw]
    ELSE s

\* ChargerSensor.stop_charging
ChargerSensorStopCharging(s) == [s EXCEPT !.is_charging = FALSE, !.power_output = 0]

\* SensorNetwork.read_all_sensors with the outcomes of the draws of this
\* step: gates in id order, then spots, then chargers
ReadAllSensors(sn, gdraw, ndraw, cdraw) ==
    LET g == [i \in DOMAIN sn.gates |-> GateSensorRead(sn.gates[i], gdraw[i])]
        o == [i \in DOMAIN sn.occupancy_sensors |->
                  OccupancySensorRead(sn.occupancy_sensors[i], ndraw[i])]
        c == [i \in DOMAIN sn.chargers |-> ChargerSensorRead(sn.chargers[i], cdraw[i])]
        ng == Cardinality(DOMAIN sn.gates)
        no == Cardinality(DOMAIN sn.occupancy_sensors)
        nc == Cardinality(DOMAIN sn.chargers)
    IN  [network |-> [gates |-> [i \in DOMAIN g |-> g[i].sensor],
                      occupancy_sensors |-> [i \in DOMAIN o |-> o[i].sensor],
                      chargers |-> [i \in DOMAIN c |-> c[i].sensor]],
         readings |-> [k \in 1 .. (ng + no + nc) |->
                          IF k <= ng THEN g[k - 1].reading
                          ELSE IF k <= ng + no THEN o[k - 1 - ng].reading
                          ELSE c[k - 1 - ng - no].reading]]

-----------------------------------------------------------------------------
\* vehicles.py

CreateNewVehicleEntering(id, arrival_time) ==
    [vehicle_id |-> id, state |-> "entering", assigned_spot |-> NONE,
     assigned_charger |-> NONE, charge_level |-> InitialCharge,
     target_charge |-> TargetCharge, arrival_time |-> arrival_time,
     departure_time |-> NONE]

\* Vehicle.create_new(arrival_time), with the id the registry will key it by
CreateNewVehicle(id, arrival_time) ==
    [vehicle_id |-> id, state |-> "approaching", assigned_spot |-> NONE,
     assigned_charger |-> NONE, charge_level |-> InitialCharge,
     target_charge |-> TargetCharge, arrival_time |-> arrival_time,
     departure_time |-> NONE]

\* Vehicle.is_charging_complete
IsChargingComplete(v) == v.charge_level >= v.target_charge

Min(a, b) == IF a <= b THEN a ELSE b

UpdateChargeAnyState(v) ==
    [v EXCEPT !.charge_level = Min(FullCharge, v.charge_level + ChargeRate)]

\* Vehicle.update_charge (charge_rate defaulted)
UpdateCharge(v) ==
    IF v.state = "charging"
    THEN [v EXCEPT !.charge_level = Min(FullCharge, v.charge_level + ChargeRate)]
    ELSE v

CanDepartNever(v) == FALSE

\* Vehicle.can_depart
CanDepart(v) == v.state = "charging" /\ IsChargingComplete(v)

\* VehicleManager()
NewVehicleManager == [vehicles |-> <<>>, vehicle_positions |-> EmptyDict]

\* VehicleManager.add_vehicle
AddVehicle(m, v) == [m EXCEPT !.vehicles = Append(m.vehicles, v)]

AssignSpotUnchecked(m, vehicle_id, spot_id) ==
    IF vehicle_id \in DOMAIN m.vehicles
    THEN [vm |-> [vehicles |-> [m.vehicles EXCEPT ![vehicle_id].assigned_spot = spot_id],
                  vehicle_positions |-> DictSet(m.vehicle_positions, spot_id, vehicle_id)],
          ok |-> TRUE]
    ELSE [vm |-> m, ok |-> FALSE]

AssignSpotKeepsOld(m, vehicle_id, spot_id) ==
    IF spot_id \in DOMAIN m.vehicle_positions /\ m.vehicle_positions[spot_id] # NONE
    THEN [vm |-> m, ok |-> FALSE]
    ELSE IF vehicle_id \in DOMAIN m.vehicles
         THEN [vm |-> [vehicles |-> [m.vehicles EXCEPT
                                       ![vehicle_id].assigned_spot = spot_id],
                       vehicle_positions |->
                           DictSet(m.vehicle_positions, spot_id, vehicle_id)],
               ok |-> TRUE]
         ELSE [vm |-> m, ok |-> FALSE]

\* VehicleManager.assign_spot: the registry after the call and the value returned
AssignSpot(m, vehicle_id, spot_id) ==
    IF spot_id \in DOMAIN m.vehicle_positions /\ m.vehicle_positions[spot_id] # NONE
    THEN [vm |-> m, ok |-> FALSE]
    ELSE IF vehicle_id \in DOMAIN m.vehicles
         THEN LET prev == m.vehicles[vehicle_id].assigned_spot
                  freed == IF prev # NONE
                           THEN DictSet(m.vehicle_positions, prev, NONE)
                           ELSE m.vehicle_positions
              IN  [vm |-> [vehicles |-> [m.vehicles EXCEPT
                                            ![vehicle_id].assigned_spot = spot_id],
                           vehicle_positions |-> DictSet(freed, spot_id, vehicle_id)],
                   ok |-> TRUE]
         ELSE [vm |-> m, ok |-> FALSE]

FreeSpotMapOnly(m, spot_id) ==
    IF spot_id \in DOMAIN m.vehicle_positions
    THEN [m EXCEPT !.vehicle_positions = DictSet(m.vehicle_positions, spot_id, NONE)]
    ELSE m

\* VehicleManager.free_spot
FreeSpot(m, spot_id) ==
    IF spot_id \in DOMAIN m.vehicle_positions
    THEN LET vehicle_id == m.vehicle_positions[spot_id]
             vs == IF vehicle_id # NONE /\ vehicle_id \in DOMAIN m.vehicles
                   THEN [m.vehicles EXCEPT ![vehicle_id].assigned_spot = NONE]
                   ELSE m.vehicles
         IN  [vehicles |-> vs,
              vehicle_positions |-> DictSet(m.vehicle_positions, spot_id, NONE)]
    ELSE m

\* VehicleManager.get_vehicles_by_state, as the positions of the vehicles
GetVehiclesByState(m, state) == {i \in DOMAIN m.vehicles : m.vehicles[i].state = state}

UpdateAllVehiclesAnyState(m) ==
    [m EXCEPT !.vehicles = [i \in DOMAIN m.vehicles |->
                               UpdateChargeAnyState(m.vehicles[i])]]

\* VehicleManager.update_all_vehicles
UpdateAllVehicles(m) ==
    [m EXCEPT !.vehicles = [i \in DOMAIN m.vehicles |-> UpdateCharge(m.vehicles[i])]]

\* the spot_claims dict of detect_occupancy_conflicts after the first i
\* vehicles were scanned: <<spot, ids>> pairs in order of first claim
RECURSIVE SpotClaims(_, _)
SpotClaims(vs, i) ==
    IF i = 0 THEN <<>>
    ELSE LET prev == SpotClaims(vs, i - 1)
             v == vs[i]
         IN  IF v.assigned_spot = NONE THEN prev
             ELSE IF \E k \in DOMAIN prev : prev[k][1] = v.assigned_spot
                  THEN [k \in DOMAIN prev |->
                           IF prev[k][1] = v.assigned_spot
                           THEN <<prev[k][1], Append(prev[k][2], v.vehicle_id)>>
                           ELSE prev[k]]
                  ELSE Append(prev, <<v.assigned_spot, <<v.vehicle_id>>>>)

ClaimedTwice(c) == Len(c[2]) > 1

ClaimedMoreThanTwice(c) == Len(c[2]) > 2

DetectOccupancyConflictsOverTwo(m) ==
    SelectSeq(SpotClaims(m.vehicles, Len(m.vehicles)), ClaimedMoreThanTwice)

\* VehicleManager.detect_occupancy_conflicts
DetectOccupancyConflicts(m) ==
    SelectSeq(SpotClaims(m.vehicles, Len(m.vehicles)), ClaimedTwice)

-----------------------------------------------------------------------------
\* depot_controller.py

\* DepotController.__init__: the initial depot_state
NewDepotState(num_gates, num_spots, num_chargers) ==
    [available_spots |-> [k \in 1 .. num_spots |-> k - 1],
     available_chargers |-> [k \in 1 .. num_chargers |-> k - 1],
     gate_states |-> [i \in 0 .. (num_gates - 1) |-> FALSE],
     spot_occupancy |-> [i \in 0 .. (num_spots - 1) |-> FALSE],
     charger_status |-> [i \in 0 .. (num_chargers - 1) |->
                            [connected |-> FALSE, charging |-> FALSE]]]

\* DepotController._create_action (action_id is a fresh uuid, left out)
CreateAction(controller, action_type, target, command, step) ==
    [step_id |-> <<"step", step>>, controller |-> controller,
     action_type |-> action_type, target |-> target, command |-> command,
     success |-> TRUE]

\* DepotController._update_depot_state after the first k readings of the
\* snapshot. A charger reading's value is the status dict itself.
RECURSIVE UpdateDepotState(_, _, _)
UpdateDepotState(ds, readings, k) ==
    IF k = 0 THEN ds
    ELSE LET d == UpdateDepotState(ds, readings, k - 1)
             r == readings[k]
             prefix == r.sensor_name[1]
             id == r.sensor_name[2]
         IN  IF prefix = "gate"
             THEN [d EXCEPT !.gate_states = DictSet(@, id, r.value)]
             ELSE IF prefix = "spot"
             THEN [d EXCEPT !.spot_occupancy = DictSet(@, id, r.value)]
             ELSE IF prefix = "charger"
             THEN IF r.sensor_type = "charger"
                  THEN [d EXCEPT !.charger_status = DictSet(@, id, r.value)]
                  ELSE d
             ELSE d

CanAdmitVehicleIgnoringChargers(ds) ==
    \E s \in DOMAIN ds.spot_occupancy : ~ds.spot_occupancy[s]

\* DepotController._can_admit_vehicle
CanAdmitVehicle(ds) ==
    LET available_spots ==
            Cardinality({s \in DOMAIN ds.spot_occupancy : ~ds.spot_occupancy[s]})
        working_chargers ==
            Cardinality({c \in DOMAIN ds.charger_status :
                            ~DictGet(ds.charger_status[c], "failed", FALSE)})
    IN  available_spots > 0 /\ working_chargers > 0

\* DepotController._assign_parking_spot, its loop from spot_id on: the
\* registry after the call and the spot returned
RECURSIVE AssignParkingSpotFrom(_, _, _, _, _)
AssignParkingSpotFrom(ds, m, vehicle_id, spot_id, num_spots) ==
    IF spot_id >= num_spots THEN [vm |-> m, spot |-> NONE]
    ELSE IF ~ds.spot_occupancy[spot_id]
         THEN LET r == AssignSpot(m, vehicle_id, spot_id)
              IN  IF r.ok THEN [vm |-> r.vm, spot |-> spot_id]
                  ELSE AssignParkingSpotFrom(ds, m, vehicle_id, spot_id + 1, num_spots)
         ELSE AssignParkingSpotFrom(ds, m, vehicle_id, spot_id + 1, num_spots)

AssignParkingSpot(ds, m, vehicle_id, num_spots) ==
    AssignParkingSpotFrom(ds, m, vehicle_id, 0, num_spots)

AssignChargerLast(ds, num_chargers) ==
    LET free == {c \in 0 .. (num_chargers - 1) :
                    /\ ~DictGet(ds.charger_status[c], "connected", FALSE)
                    /\ ~DictGet(ds.charger_status[c], "failed", FALSE)}
    IN  IF free = {} THEN NONE
        ELSE CHOOSE c \in free : \A d \in free : c >= d

AssignChargerIgnoringFailed(ds, num_chargers) ==
    LET free == {c \in 0 .. (num_chargers - 1) :
                    ~DictGet(ds.charger_status[c], "connected", FALSE)}
    IN  IF free = {} THEN NONE
        ELSE CHOOSE c \in free : \A d \in free : c <= d

\* DepotController._assign_charger
AssignCharger(ds, num_chargers) ==
    LET free == {c \in 0 .. (num_chargers - 1) :
                    /\ ~DictGet(ds.charger_status[c], "connected", FALSE)
                    /\ ~DictGet(ds.charger_status[c], "failed", FALSE)}
    IN  IF free = {} THEN NONE
        ELSE CHOOSE c \in free : \A d \in free : c <= d

IsChargerFailedNever(ds, charger_id) == FALSE

\* DepotController._is_charger_failed
IsChargerFailed(ds, charger_id) ==
    IF charger_id = NONE THEN FALSE
    ELSE DictGet(DictGet(ds.charger_status, charger_id, EmptyDict), "failed", FALSE)

FreeVehicleResourcesKeepsSpot(ds, m, i) ==
    LET v == m.vehicles[i]
        ds2 == IF v.assigned_charger # NONE
               THEN [ds EXCEPT !.charger_status[v.assigned_charger] =
                        DictSet(DictSet(@, "connected", FALSE), "charging", FALSE)]
               ELSE ds
    IN  [vm |-> m, ds |-> ds2]

\* DepotController._free_vehicle_resources for the vehicle at position i:
\* the registry and the depot state after the call
FreeVehicleResources(ds, m, i) ==
    LET v == m.vehicles[i]
        m2 == IF v.assigned_spot # NONE THEN FreeSpot(m, v.assigned_spot) ELSE m
        ds2 == IF v.assigned_charger # NONE
               THEN [ds EXCEPT !.charger_status[v.assigned_charger] =
                        DictSet(DictSet(@, "connected", FALSE), "charging", FALSE)]
               ELSE ds
    IN  [vm |-> m2, ds |-> ds2]

ProcessVehicleFailureFirst(ds, m, i, num_spots, num_chargers, step) ==
    LET v == m.vehicles[i]
        SetState(mm, st) == [mm EXCEPT !.vehicles[i].state = st]
        same == [vm |-> m, ds |-> ds, actions |-> <<>>]
    IN  IF v.state = "approaching"
        THEN IF CanAdmitVehicle(ds)
             THEN LET a == AssignParkingSpot(ds, m, v.vehicle_id, num_spots)
                  IN  IF a.spot # NONE
                      THEN [vm |-> SetState(a.vm, "entering"), ds |-> ds,
                            actions |-> <<CreateAction("depot_controller",
                                "vehicle_assignment", <<"vehicle", v.vehicle_id>>,
                                <<"assign_spot", a.spot>>, step)>>]
                      ELSE [vm |-> SetState(a.vm, "waiting"), ds |-> ds,
                            actions |-> <<>>]
             ELSE same
        ELSE IF v.state = "entering"
        THEN [vm |-> SetState(m, "parking"), ds |-> ds, actions |-> <<>>]
        ELSE IF v.state = "parking"
        THEN LET charger == AssignCharger(ds, num_chargers)
             IN  IF charger # NONE
                 THEN [vm |-> [m EXCEPT !.vehicles[i].assigned_charger = charger,
                                        !.vehicles[i].state = "charging"],
                       ds |-> ds,
                       actions |-> <<CreateAction("depot_controller",
                           "charger_assignment", <<"charger", charger>>,
                           <<"start_charging">>, step)>>]
                 ELSE same
        ELSE IF v.state = "charging"
        THEN IF CanDepart(v) /\ ~IsChargerFailed(ds, v.assigned_charger)
             THEN [vm |-> SetState(m, "exiting"), ds |-> ds,
                   actions |-> IF v.assigned_charger # NONE
                               THEN <<CreateAction("depot_controller",
                                        "charger_control",
                                        <<"charger", v.assigned_charger>>,
                                        <<"stop_charging">>, step)>>
                               ELSE <<>>]
             ELSE IF IsChargerFailed(ds, v.assigned_charger)
             THEN [vm |-> SetState(m, "waiting"), ds |-> ds,
                   actions |-> <<CreateAction("depot_controller", "fault_response",
                                    <<"vehicle", v.vehicle_id>>,
                                    <<"charger_failure_detected">>, step)>>]
             ELSE same
        ELSE IF v.state = "exiting"
        THEN LET f == FreeVehicleResources(ds, m, i)
             IN  [vm |-> [f.vm EXCEPT !.vehicles[i].state = "departed",
                                      !.vehicles[i].departure_time = step],
                  ds |-> f.ds, actions |-> <<>>]
        ELSE same

\* DepotController._process_vehicle for the vehicle at position i: the
\* registry, the depot state and the actions it returns
ProcessVehicle(ds, m, i, num_spots, num_chargers, step) ==
    LET v == m.vehicles[i]
        SetState(mm, st) == [mm EXCEPT !.vehicles[i].state = st]
        same == [vm |-> m, ds |-> ds, actions |-> <<>>]
    IN  IF v.state = "approaching"
        THEN IF CanAdmitVehicle(ds)
             THEN LET a == AssignParkingSpot(ds, m, v.vehicle_id, num_spots)
                  IN  IF a.spot # NONE
                      THEN [vm |-> SetState(a.vm, "entering"), ds |-> ds,
                            actions |-> <<CreateAction("depot_controller",
                                "vehicle_assignment", <<"vehicle", v.vehicle_id>>,
                                <<"assign_spot", a.spot>>, step)>>]
                      ELSE [vm |-> SetState(a.vm, "waiting"), ds |-> ds,
                            actions |-> <<>>]
             ELSE same
        ELSE IF v.state = "entering"
        THEN [vm |-> SetState(m, "parking"), ds |-> ds, actions |-> <<>>]
        ELSE IF v.state = "parking"
        THEN LET charger == AssignCharger(ds, num_chargers)
             IN  IF charger # NONE
                 THEN [vm |-> [m EXCEPT !.vehicles[i].assigned_charger = charger,
                                        !.vehicles[i].state = "charging"],
                       ds |-> ds,
                       actions |-> <<CreateAction("depot_controller",
                           "charger_assignment", <<"charger", charger>>,
                           <<"start_charging">>, step)>>]
                 ELSE same
        ELSE IF v.state = "charging"
        THEN IF CanDepart(v)
             THEN [vm |-> SetState(m, "exiting"), ds |-> ds,
                   actions |-> IF v.assigned_charger # NONE
                               THEN <<CreateAction("depot_controller",
                                        "charger_control",
                                        <<"charger", v.assigned_charger>>,
                                        <<"stop_charging">>, step)>>
                               ELSE <<>>]
             ELSE IF IsChargerFailed(ds, v.assigned_charger)
             THEN [vm |-> SetState(m, "waiting"), ds |-> ds,
                   actions |-> <<CreateAction("depot_controller", "fault_response",
                                    <<"vehicle", v.vehicle_id>>,
                                    <<"charger_failure_detected">>, step)>>]
             ELSE same
        ELSE IF v.state = "exiting"
        THEN LET f == FreeVehicleResources(ds, m, i)
             IN  [vm |-> [f.vm EXCEPT !.vehicles[i].state = "departed",
                                      !.vehicles[i].departure_time = step],
                  ds |-> f.ds, actions |-> <<>>]
        ELSE same

\* the loop of process_step over the registry, after the first i vehicles
RECURSIVE ProcessVehicles(_, _, _, _, _, _)
ProcessVehicles(ds, m, i, num_spots, num_chargers, step) ==
    IF i = 0 THEN [vm |-> m, ds |-> ds, actions |-> <<>>]
    ELSE LET p == ProcessVehicles(ds, m, i - 1, num_spots, num_chargers, step)
             q == ProcessVehicle(p.ds, p.vm, i, num_spots, num_chargers, step)
         IN  [vm |-> q.vm, ds |-> q.ds, actions |-> p.actions \o q.actions]

\* the gate-open decision of _control_gates
ShouldOpenGateIgnoringVehicles(ds, m) == CanAdmitVehicle(ds)

ShouldOpenGate(ds, m) ==
    /\ \/ GetVehiclesByState(m, "waiting") # {}
       \/ GetVehiclesByState(m, "approaching") # {}
    /\ CanAdmitVehicle(ds)

\* the loop of _control_gates over the first n gates
RECURSIVE ControlGatesUpTo(_, _, _, _)
ControlGatesUpTo(ds, should_open_gate, n, step) ==
    IF n = 0 THEN <<>>
    ELSE LET gate_id == n - 1
             current_state == ds.gate_states[gate_id]
             act == IF should_open_gate /\ ~current_state
                    THEN <<CreateAction("depot_controller", "gate_control",
                               <<"gate", gate_id>>, <<"open">>, step)>>
                    ELSE IF ~should_open_gate /\ current_state
                    THEN <<CreateAction("depot_controller", "gate_control",
                               <<"gate", gate_id>>, <<"close">>, step)>>
                    ELSE <<>>
         IN  ControlGatesUpTo(ds, should_open_gate, n - 1, step) \o act

ControlGatesAlwaysOpen(ds, m, num_gates, step) ==
    ControlGatesUpTo(ds, TRUE, num_gates, step)

\* DepotController._control_gates
ControlGates(ds, m, num_gates, step) ==
    ControlGatesUpTo(ds, ShouldOpenGate(ds, m), num_gates, step)

\* DepotController.process_step
ProcessStep(ds, m, readings, num_gates, num_spots, num_chargers, step) ==
    LET ds1 == UpdateDepotState(ds, readings, Len(readings))
        p == ProcessVehicles(ds1, m, Len(m.vehicles), num_spots, num_chargers, step)
    IN  [vm |-> p.vm, ds |-> p.ds,
         actions |-> p.actions \o ControlGates(p.ds, p.vm, num_gates, step)]

-----------------------------------------------------------------------------
\* engine.py

\* python truthiness of an Optional[int]
Truthy(x) == x # NONE /\ x # 0

\* the configurations explored: SimulationConfig with the depot sizes of the
\* model, max_steps 0 or MaxSteps, arrivals off or at the default rate, and
\* each scheduled failure absent or at step MaxFailStep; and the default
\* scenario with the noise probability set to 0
FailSteps == {NONE, MaxFailStep}

Configs ==
    [num_gates : {NumGates}, num_spots : {NumSpots}, num_chargers : {NumChargers},
     max_steps : {0, MaxSteps},
     vehicle_arrival_rate : {0, DefaultArrivalRate},
     charger_failure_step : FailSteps,
     gate_failure_step : FailSteps,
     noise_level : {DefaultNoiseLevel}]
    \cup
    [num_gates : {NumGates}, num_spots : {NumSpots}, num_chargers : {NumChargers},
     max_steps : {MaxSteps},
     vehicle_arrival_rate : {DefaultArrivalRate},
     charger_failure_step : {NONE},
     gate_failure_step : {NONE},
     noise_level : {0}]

InjectFailuresNever(sn, cfg, step) == sn

InjectFailuresFromStart(sn, cfg, step) ==
    LET sn1 == IF Truthy(cfg.charger_failure_step) /\ step <= cfg.charger_failure_step
               THEN [sn EXCEPT !.chargers[0].is_failed = TRUE]
               ELSE sn
    IN  IF Truthy(cfg.gate_failure_step) /\ step <= cfg.gate_failure_step
        THEN [sn1 EXCEPT !.gates[0].is_failed = TRUE]
        ELSE sn1

InjectFailuresAllChargers(sn, cfg, step) ==
    LET sn1 == IF Truthy(cfg.charger_failure_step) /\ step = cfg.charger_failure_step
               THEN [sn EXCEPT !.chargers =
                        [c \in DOMAIN sn.chargers |->
                            [sn.chargers[c] EXCEPT !.is_failed = TRUE]]]
               ELSE sn
    IN  IF Truthy(cfg.gate_failure_step) /\ step = cfg.gate_failure_step
        THEN [sn1 EXCEPT !.gates[0].is_failed = TRUE]
        ELSE sn1

\* SimulationEngine._inject_failures at step `step`
InjectFailures(sn, cfg, step) ==
    LET sn1 == IF Truthy(cfg.charger_failure_step) /\ step = cfg.charger_failure_step
               THEN [sn EXCEPT !.chargers[0].is_failed = TRUE]
               ELSE sn
    IN  IF Truthy(cfg.gate_failure_step) /\ step = cfg.gate_failure_step
        THEN [sn1 EXCEPT !.gates[0].is_failed = TRUE]
        ELSE sn1

\* SimulationEngine._generate_vehicles with the outcome of the arrival draw
GenerateVehicles(m, arrive, step) ==
    IF arrive
    THEN AddVehicle(m, CreateNewVehicle(Len(m.vehicles) + 1, step))
    ELSE m

ClassifyFaultTypeAlwaysNoise(reading) == "sensor_noise"

\* SimulationEngine._classify_fault_type
ClassifyFaultType(reading) ==
    IF reading.sensor_type = "charger" THEN "charger_failure"
    ELSE IF reading.sensor_type = "gate" THEN "gate_stuck"
    ELSE "sensor_noise"

\* the first loop of _detect_faults, after the first k readings
RECURSIVE SensorFaults(_, _, _, _)
SensorFaults(readings, k, sid, step) ==
    IF k = 0 THEN <<>>
    ELSE LET r == readings[k]
         IN  SensorFaults(readings, k - 1, sid, step) \o
             (IF r.is_fault
              THEN <<[step_id |-> sid,
                      fault_type |-> ClassifyFaultType(r),
                      alert_level |-> "warning",
                      description |-> <<"Sensor fault detected", r.sensor_name>>,
                      affected_component |-> r.sensor_name,
                      detected_at |-> step,
                      resolved_at |-> NONE]>>
              ELSE <<>>)

\* the second loop of _detect_faults over the conflicts found
ConflictFaults(conflicts, sid, step) ==
    [k \in DOMAIN conflicts |->
        [step_id |-> sid,
         fault_type |-> "occupancy_conflict",
         alert_level |-> "critical",
         description |-> <<"Multiple vehicles claiming spot", conflicts[k][1],
                           conflicts[k][2]>>,
         affected_component |-> SensorName("spot", conflicts[k][1]),
         detected_at |-> step,
         resolved_at |-> NONE]]

\* SimulationEngine._detect_faults
DetectFaults(readings, m, sid, step) ==
    SensorFaults(readings, Len(readings), sid, step) \o
    ConflictFaults(DetectOccupancyConflicts(m), sid, step)

TooManyFaultsAtLimit(faults) == Len(faults) >= FaultLimit

TooManyFaultsNever(faults) == FALSE

\* the early-termination test of run_complete_simulation
TooManyFaults(faults) == Len(faults) > FaultLimit

StepLogFaultsFirst(sid, step, readings, actions, faults) ==
    <<[table |-> "simulation_steps", step_id |-> sid, row |-> step]>> \o
    [k \in DOMAIN readings |->
        [table |-> "sensor_readings", step_id |-> sid, row |-> readings[k]]] \o
    [k \in DOMAIN faults |->
        [table |-> "fault_events", step_id |-> faults[k].step_id, row |-> faults[k]]] \o
    [k \in DOMAIN actions |->
        [table |-> "control_actions", step_id |-> actions[k].step_id,
         row |-> actions[k]]]

\* the rows run_step hands to the log sink, in the order of its inserts
StepLog(sid, step, readings, actions, faults) ==
    <<[table |-> "simulation_steps", step_id |-> sid, row |-> step]>> \o
    [k \in DOMAIN readings |->
        [table |-> "sensor_readings", step_id |-> sid, row |-> readings[k]]] \o
    [k \in DOMAIN actions |->
        [table |-> "control_actions", step_id |-> actions[k].step_id,
         row |-> actions[k]]] \o
    [k \in DOMAIN faults |->
        [table |-> "fault_events", step_id |-> faults[k].step_id, row |-> faults[k]]]

\* the status dicts of the snapshot are the objects the depot state holds, so
\* what _free_vehicle_resources writes shows in the readings too
AliasedReadings(readings, ds) ==
    [k \in DOMAIN readings |->
        IF readings[k].sensor_type = "charger"
        THEN [readings[k] EXCEPT !.value = ds.charger_status[readings[k].sensor_name[2]]]
        ELSE readings[k]]

\* the devices whose failed flag this step's read-time draws set
DrawFailed(sn, gdraw, cdraw) ==
    {<<"gate", g>> : g \in {x \in DOMAIN sn.gates : gdraw[x] /\ ~sn.gates[x].is_failed}}
    \cup
    {<<"charger", c>> : c \in {x \in DOMAIN sn.chargers :
                                  cdraw[x] /\ ~sn.chargers[x].is_failed}}

RunStepResultInjectsLast(cfg, step0, sn, m, ds, all_faults, arrive, gdraw, ndraw, cdraw) ==
    LET step == step0 + 1
        sid == <<RunId, step>>
        m1 == GenerateVehicles(m, arrive, step)
        rd == ReadAllSensors(sn, gdraw, ndraw, cdraw)
        m2 == UpdateAllVehicles(m1)
        ps == ProcessStep(ds, m2, rd.readings, cfg.num_gates, cfg.num_spots,
                          cfg.num_chargers, step)
        faults == DetectFaults(rd.readings, ps.vm, sid, step)
    IN  [current_step |-> step,
         step_id |-> sid,
         sensor_network |-> InjectFailures(rd.network, cfg, step),
         vm |-> ps.vm,
         depot_state |-> ps.ds,
         sensor_readings |-> AliasedReadings(rd.readings, ps.ds),
         control_actions |-> ps.actions,
         faults |-> faults,
         faults_detected |-> all_faults \o faults,
         db_log |-> StepLog(sid, step, rd.readings, ps.actions, faults),
         draw_failed |-> DrawFailed(sn, gdraw, cdraw),
         step_result |-> [step |-> step,
                          vehicles |-> Len(ps.vm.vehicles),
                          sensor_readings |-> Len(rd.readings),
                          control_actions |-> Len(ps.actions),
                          faults |-> Len(faults)]]

RunStepResultAppliesActions(cfg, step0, sn, m, ds, all_faults, arrive, gdraw, ndraw, cdraw) ==
    LET step == step0 + 1
        sid == <<RunId, step>>
        sn1 == InjectFailures(sn, cfg, step)
        m1 == GenerateVehicles(m, arrive, step)
        rd == ReadAllSensors(sn1, gdraw, ndraw, cdraw)
        m2 == UpdateAllVehicles(m1)
        ps == ProcessStep(ds, m2, rd.readings, cfg.num_gates, cfg.num_spots,
                          cfg.num_chargers, step)
        faults == DetectFaults(rd.readings, ps.vm, sid, step)
    IN  [current_step |-> step,
         step_id |-> sid,
         sensor_network |->
             [rd.network EXCEPT !.gates =
                 [g \in DOMAIN rd.network.gates |->
                     IF \E k \in DOMAIN ps.actions :
                            /\ ps.actions[k].action_type = "gate_control"
                            /\ ps.actions[k].target = <<"gate", g>>
                     THEN GateSensorSetState(rd.network.gates[g], TRUE)
                     ELSE rd.network.gates[g]]],
         vm |-> ps.vm,
         depot_state |-> ps.ds,
         sensor_readings |-> AliasedReadings(rd.readings, ps.ds),
         control_actions |-> ps.actions,
         faults |-> faults,
         faults_detected |-> all_faults \o faults,
         db_log |-> StepLog(sid, step, rd.readings, ps.actions, faults),
         draw_failed |-> DrawFailed(sn1, gdraw, cdraw),
         step_result |-> [step |-> step,
                          vehicles |-> Len(ps.vm.vehicles),
                          sensor_readings |-> Len(rd.readings),
                          control_actions |-> Len(ps.actions),
                          faults |-> Len(faults)]]

\* SimulationEngine.run_step with the outcomes of this step's draws: the
\* engine's state after the step
RunStepResult(cfg, step0, sn, m, ds, all_faults, arrive, gdraw, ndraw, cdraw) ==
    LET step == step0 + 1
        sid == <<RunId, step>>
        sn1 == InjectFailures(sn, cfg, step)
        m1 == GenerateVehicles(m, arrive, step)
        rd == ReadAllSensors(sn1, gdraw, ndraw, cdraw)
        m2 == UpdateAllVehicles(m1)
        ps == ProcessStep(ds, m2, rd.readings, cfg.num_gates, cfg.num_spots,
                          cfg.num_chargers, step)
        faults == DetectFaults(rd.readings, ps.vm, sid, step)
    IN  [current_step |-> step,
         step_id |-> sid,
         sensor_network |-> rd.network,
         vm |-> ps.vm,
         depot_state |-> ps.ds,
         sensor_readings |-> AliasedReadings(rd.readings, ps.ds),
         control_actions |-> ps.actions,
         faults |-> faults,
         faults_detected |-> all_faults \o faults,
         db_log |-> StepLog(sid, step, rd.readings, ps.actions, faults),
         draw_failed |-> DrawFailed(sn1, gdraw, cdraw),
         step_result |-> [step |-> step,
                          vehicles |-> Len(ps.vm.vehicles),
                          sensor_readings |-> Len(rd.readings),
                          control_actions |-> Len(ps.actions),
                          faults |-> Len(faults)]]

NoiseCount(faults) ==
    Len(SelectSeq(faults, LAMBDA f : f.fault_type = "sensor_noise"))

\* no registry call made by a bench yet
NoCall == [op |-> "none", vehicle_id |-> NONE, spot_id |-> NONE, result |-> FALSE]

-----------------------------------------------------------------------------
\* The run: SimulationEngine.__init__ and run_complete_simulation

Init ==
    /\ config \in Configs
    /\ pc = "not_started"
    /\ loop_i = 0
    /\ current_step = 0
    /\ step_id = NONE
    /\ sensor_network = NewSensorNetwork(config.num_gates, config.num_spots,
                                         config.num_chargers)
    /\ vm = NewVehicleManager
    /\ depot_state = NewDepotState(config.num_gates, config.num_spots,
                                   config.num_chargers)
    /\ sensor_readings = <<>>
    /\ control_actions = <<>>
    /\ faults_detected = <<>>
    /\ db_run = <<>>
    /\ db_log = <<>>
    /\ draw_failed = {}
    /\ results = <<>>
    /\ returned = <<>>
    /\ last_call = NoCall

\* start_simulation, called first by run_complete_simulation
StartSimulation ==
    /\ pc = "not_started"
    /\ db_run' = Append(db_run, [run_id |-> RunId, start_time |-> "set",
                                 end_time |-> NoTime, total_steps |-> 0])
    /\ pc' = IF loop_i < config.max_steps THEN "loop" ELSE "finalize"
    /\ UNCHANGED <<config, loop_i, current_step, step_id, sensor_network, vm,
                   depot_state, sensor_readings, control_actions, faults_detected,
                   db_log, draw_failed, results, returned,
                   last_call>>

\* one iteration of the for loop: run_step, then the early-termination test
RunStep ==
    /\ pc = "loop"
    /\ \E arrive \in RandomLess(config.vehicle_arrival_rate),
          gdraw \in [DOMAIN sensor_network.gates -> BOOLEAN],
          ndraw \in [DOMAIN sensor_network.occupancy_sensors -> BOOLEAN],
          cdraw \in [DOMAIN sensor_network.chargers -> BOOLEAN] :
        /\ \A g \in DOMAIN gdraw :
              gdraw[g] \in RandomLess(sensor_network.gates[g].failure_rate)
        /\ \A s \in DOMAIN ndraw :
              ndraw[s] \in RandomLess(sensor_network.occupancy_sensors[s].noise_rate)
        /\ \A c \in DOMAIN cdraw :
              cdraw[c] \in RandomLess(sensor_network.chargers[c].failure_rate)
        /\ arrive => Len(vm.vehicles) < MaxVehicles
        /\ NoiseCount(faults_detected) + Cardinality({s \in DOMAIN ndraw : ndraw[s]})
              <= MaxNoise
        /\ Cardinality(draw_failed \cup
                       DrawFailed(InjectFailures(sensor_network, config,
                                                 current_step + 1), gdraw, cdraw))
              <= MaxDrawFailures
        /\ \E r \in {RunStepResult(config, current_step, sensor_network, vm,
                                      depot_state, faults_detected, arrive, gdraw,
                                      ndraw, cdraw)} :
               /\ current_step' = r.current_step
               /\ step_id' = r.step_id
               /\ sensor_network' = r.sensor_network
               /\ vm' = r.vm
               /\ depot_state' = r.depot_state
               /\ sensor_readings' = r.sensor_readings
               /\ control_actions' = r.control_actions
               /\ faults_detected' = r.faults_detected
               /\ db_log' = r.db_log
               /\ draw_failed' = draw_failed \cup r.draw_failed
               /\ results' = Append(results, r.step_result)
               /\ loop_i' = loop_i + 1
               /\ pc' = IF TooManyFaults(r.faults_detected) THEN "finalize"
                        ELSE IF loop_i + 1 < config.max_steps THEN "loop"
                        ELSE "finalize"
    /\ UNCHANGED <<config, db_run, returned, last_call>>

FinalizeRunUnstamped(rows, run_id, total_steps) ==
    [k \in DOMAIN rows |->
        IF rows[k].run_id = run_id THEN [rows[k] EXCEPT !.end_time = "set"]
        ELSE rows[k]]

\* the UPDATE of _finalize_simulation on the rows of simulation_runs
FinalizeRun(rows, run_id, total_steps) ==
    [k \in DOMAIN rows |->
        IF rows[k].run_id = run_id
        THEN [rows[k] EXCEPT !.end_time = "set", !.total_steps = total_steps]
        ELSE rows[k]]

\* the end of run_complete_simulation: _finalize_simulation, then the
\* dict returned
FinalizeSimulation ==
    /\ pc = "finalize"
    /\ db_run' = FinalizeRun(db_run, RunId, current_step)
    /\ returned' = <<[run_id |-> RunId, total_steps |-> current_step,
                      total_faults |-> Len(faults_detected),
                      step_results |-> results]>>
    /\ pc' = "done"
    /\ UNCHANGED <<config, loop_i, current_step, step_id, sensor_network, vm,
                   depot_state, sensor_readings, control_actions, faults_detected,
                   db_log, draw_failed, results, last_call>>

Next == StartSimulation \/ RunStep \/ FinalizeSimulation

Spec == Init /\ [][Next]_vars

-----------------------------------------------------------------------------
\* A run on a registry a test harness filled before the start:
\* engine.vehicle_manager.add_vehicle(Vehicle(...)) with a spot already
\* claimed in the vehicle's own field, the probe for the conflict detector.

HarnessVehicles ==
    {[CreateNewVehicle(0, 0) EXCEPT !.state = "charging", !.assigned_spot = sp,
                                    !.assigned_charger = 0, !.charge_level = ch] :
        sp \in Spots, ch \in {InitialCharge, FullCharge}}

HarnessInit ==
    /\ Init
    /\ config.max_steps = MaxSteps
    /\ config.vehicle_arrival_rate = DefaultArrivalRate
    /\ config.charger_failure_step = NONE
    /\ config.gate_failure_step = NONE
    /\ config.noise_level = DefaultNoiseLevel

HarnessAddVehicle ==
    /\ pc = "not_started"
    /\ Len(vm.vehicles) < MaxVehicles
    /\ \E v \in HarnessVehicles :
          vm' = AddVehicle(vm, [v EXCEPT !.vehicle_id = Len(vm.vehicles) + 1])
    /\ UNCHANGED <<config, pc, loop_i, current_step, step_id, sensor_network,
                   depot_state, sensor_readings, control_actions, faults_detected,
                   db_run, db_log, draw_failed, results, returned,
                   last_call>>

\* the bench opens a gate before the run: GateSensor.set_state(True)
HarnessSetGate ==
    /\ pc = "not_started"
    /\ \E g \in DOMAIN sensor_network.gates :
          /\ ~sensor_network.gates[g].is_open
          /\ sensor_network' =
                [sensor_network EXCEPT !.gates[g] = GateSensorSetState(@, TRUE)]
    /\ UNCHANGED <<config, pc, loop_i, current_step, step_id, vm, depot_state,
                   sensor_readings, control_actions, faults_detected, db_run,
                   db_log, draw_failed, results, returned,
                   last_call>>

HarnessNext ==
    \/ HarnessAddVehicle
    \/ HarnessSetGate
    \/ StartSimulation
    \/ RunStep
    \/ FinalizeSimulation

SpecHarness == HarnessInit /\ [][HarnessNext]_vars

-----------------------------------------------------------------------------
\* A quiet run: no failure draw and no noise draw of a sensor fires (each has
\* a chance below 0.05 per read), no failure is scheduled, and the run is
\* long enough for a vehicle to arrive, charge from 0.2 to 0.8 and leave.

QuietConfig ==
    [num_gates |-> NumGates, num_spots |-> NumSpots, num_chargers |-> NumChargers,
     max_steps |-> LongSteps, vehicle_arrival_rate |-> DefaultArrivalRate,
     charger_failure_step |-> NONE, gate_failure_step |-> NONE,
     noise_level |-> DefaultNoiseLevel]

QuietInit ==
    /\ config = QuietConfig
    /\ pc = "not_started"
    /\ loop_i = 0
    /\ current_step = 0
    /\ step_id = NONE
    /\ sensor_network = NewSensorNetwork(config.num_gates, config.num_spots,
                                         config.num_chargers)
    /\ vm = NewVehicleManager
    /\ depot_state = NewDepotState(config.num_gates, config.num_spots,
                                   config.num_chargers)
    /\ sensor_readings = <<>>
    /\ control_actions = <<>>
    /\ faults_detected = <<>>
    /\ db_run = <<>>
    /\ db_log = <<>>
    /\ draw_failed = {}
    /\ results = <<>>
    /\ returned = <<>>
    /\ last_call = NoCall

\* one iteration of the for loop in which only the arrival draw may fire
RunStepQuiet ==
    /\ pc = "loop"
    /\ \E arrive \in RandomLess(config.vehicle_arrival_rate) :
        /\ arrive => Len(vm.vehicles) < MaxVehicles
        /\ \E r \in {RunStepResult(config, current_step, sensor_network, vm,
                                      depot_state, faults_detected, arrive,
                                      [g \in DOMAIN sensor_network.gates |-> FALSE],
                                      [o \in DOMAIN sensor_network.occupancy_sensors
                                          |-> FALSE],
                                      [c \in DOMAIN sensor_network.chargers |-> FALSE])} :
               /\ current_step' = r.current_step
               /\ step_id' = r.step_id
               /\ sensor_network' = r.sensor_network
               /\ vm' = r.vm
               /\ depot_state' = r.depot_state
               /\ sensor_readings' = r.sensor_readings
               /\ control_actions' = r.control_actions
               /\ faults_detected' = r.faults_detected
               /\ db_log' = r.db_log
               /\ draw_failed' = draw_failed \cup r.draw_failed
               /\ results' = Append(results, r.step_result)
               /\ loop_i' = loop_i + 1
               /\ pc' = IF TooManyFaults(r.faults_detected) THEN "finalize"
                        ELSE IF loop_i + 1 < config.max_steps THEN "loop"
                        ELSE "finalize"
    /\ UNCHANGED <<config, db_run, returned, last_call>>

QuietNext == StartSimulation \/ RunStepQuiet \/ FinalizeSimulation

SpecQuiet == QuietInit /\ [][QuietNext]_vars

-----------------------------------------------------------------------------
\* A controller bench: DepotController.process_step called directly, once
\* per bench step, on the snapshot read_all_sensors returned (no draw fires)
\* to which the bench may add one entry under a name the depot does not
\* have. loop_i counts the bench's calls and is the step index it passes.

\* names that are not names of configured devices: an unknown prefix, a
\* known prefix with a part that is not an integer, ids out of range
ForeignNames ==
    {<<"door", 0>>, <<"gate", NotAnInt>>, <<"charger", NotAnInt>>,
     <<"gate", NumGates>>, <<"spot", NumSpots>>}

ForeignReading(name) ==
    [sensor_name |-> name, sensor_type |-> "gate", value |-> FALSE, is_fault |-> FALSE]

\* the entries of a snapshot at which _update_depot_state raises: the name
\* starts with a known prefix and int() of its second part fails
RaisingEntries(readings) ==
    {k \in DOMAIN readings :
        /\ readings[k].sensor_name[1] \in {"gate", "spot", "charger"}
        /\ readings[k].sensor_name[2] = NotAnInt}

\* process_step on a snapshot: the exception leaves _update_depot_state at
\* the first raising entry, with the entries before it applied and nothing
\* after; otherwise the step completes
ProcessSnapshot(ds, m, readings, num_gates, num_spots, num_chargers, step) ==
    IF RaisingEntries(readings) # {}
    THEN LET k == CHOOSE j \in RaisingEntries(readings) :
                      \A i \in RaisingEntries(readings) : j <= i
         IN  [raised |-> TRUE, vm |-> m, ds |-> UpdateDepotState(ds, readings, k - 1),
              actions |-> <<>>]
    ELSE LET ps == ProcessStep(ds, m, readings, num_gates, num_spots, num_chargers,
                               step)
         IN  [raised |-> FALSE, vm |-> ps.vm, ds |-> ps.ds, actions |-> ps.actions]

BenchProcessStep ==
    /\ pc = "not_started"
    /\ loop_i < MaxSteps
    /\ \E extra \in {<<>>} \cup {<<ForeignReading(n)>> : n \in ForeignNames} :
          \E r \in {ProcessSnapshot(depot_state, vm,
                        ReadAllSensors(sensor_network,
                            [g \in DOMAIN sensor_network.gates |-> FALSE],
                            [o \in DOMAIN sensor_network.occupancy_sensors |-> FALSE],
                            [c \in DOMAIN sensor_network.chargers |-> FALSE]).readings
                        \o extra,
                        config.num_gates, config.num_spots, config.num_chargers,
                        loop_i + 1)} :
              /\ vm' = r.vm
              /\ depot_state' = r.ds
              /\ control_actions' = r.actions
              /\ pc' = IF r.raised THEN "raised" ELSE pc
    /\ loop_i' = loop_i + 1
    /\ UNCHANGED <<config, current_step, step_id, sensor_network, sensor_readings,
                   faults_detected, db_run, db_log, draw_failed, results, returned,
                   last_call>>

BenchNext == HarnessAddVehicle \/ BenchProcessStep

SpecBench == HarnessInit /\ [][BenchNext]_vars

-----------------------------------------------------------------------------
\* A registry bench, as in test_vehicle_management: a VehicleManager driven
\* through its own operations add_vehicle, assign_spot and free_spot, for
\* registered and unregistered vehicle ids, in any order.

RegistryAddVehicle ==
    /\ pc = "not_started"
    /\ Len(vm.vehicles) < MaxVehicles
    /\ vm' = AddVehicle(vm, CreateNewVehicle(Len(vm.vehicles) + 1, 0))
    /\ last_call' = [op |-> "add_vehicle", vehicle_id |-> Len(vm.vehicles) + 1,
                     spot_id |-> NONE, result |-> FALSE]
    /\ UNCHANGED <<config, pc, loop_i, current_step, step_id, sensor_network,
                   depot_state, sensor_readings, control_actions, faults_detected,
                   db_run, db_log, draw_failed, results, returned>>

RegistryAssignSpot ==
    /\ pc = "not_started"
    /\ \E vehicle_id \in 1 .. (MaxVehicles + 1), spot_id \in Spots :
          \E r \in {AssignSpot(vm, vehicle_id, spot_id)} :
              /\ vm' = r.vm
              /\ last_call' = [op |-> "assign_spot", vehicle_id |-> vehicle_id,
                               spot_id |-> spot_id, result |-> r.ok]
    /\ UNCHANGED <<config, pc, loop_i, current_step, step_id, sensor_network,
                   depot_state, sensor_readings, control_actions, faults_detected,
                   db_run, db_log, draw_failed, results, returned>>

RegistryFreeSpot ==
    /\ pc = "not_started"
    /\ \E spot_id \in Spots :
          /\ vm' = FreeSpot(vm, spot_id)
          /\ last_call' = [op |-> "free_spot", vehicle_id |-> NONE,
                           spot_id |-> spot_id, result |-> FALSE]
    /\ UNCHANGED <<config, pc, loop_i, current_step, step_id, sensor_network,
                   depot_state, sensor_readings, control_actions, faults_detected,
                   db_run, db_log, draw_failed, results, returned>>

RegistryNext == RegistryAddVehicle \/ RegistryAssignSpot \/ RegistryFreeSpot

SpecRegistry == HarnessInit /\ [][RegistryNext]_vars

-----------------------------------------------------------------------------
\* The engine driven through its operations one call at a time, in any
\* order: start_simulation, run_step and _finalize_simulation are plain
\* methods and none of them tests where the run is. pc stays "not_started"
\* (run_complete_simulation is not running) unless a call raises. No sensor
\* draw fires in these steps.

\* start_simulation: INSERT INTO simulation_runs; run_id is the primary key,
\* so a second insert for this engine raises sqlite3.IntegrityError
ApiStartSimulation ==
    /\ pc = "not_started"
    /\ IF \E k \in DOMAIN db_run : db_run[k].run_id = RunId
       THEN pc' = "raised" /\ db_run' = db_run
       ELSE /\ pc' = pc
            /\ db_run' = Append(db_run, [run_id |-> RunId, start_time |-> "set",
                                         end_time |-> NoTime, total_steps |-> 0])
    /\ UNCHANGED <<config, loop_i, current_step, step_id, sensor_network, vm,
                   depot_state, sensor_readings, control_actions, faults_detected,
                   db_log, draw_failed, results, returned, last_call>>

\* run_step
ApiRunStep ==
    /\ pc = "not_started"
    /\ current_step < MaxSteps
    /\ \E arrive \in RandomLess(config.vehicle_arrival_rate) :
        /\ arrive => Len(vm.vehicles) < MaxVehicles
        /\ \E r \in {RunStepResult(config, current_step, sensor_network, vm,
                                      depot_state, faults_detected, arrive,
                                      [g \in DOMAIN sensor_network.gates |-> FALSE],
                                      [o \in DOMAIN sensor_network.occupancy_sensors
                                          |-> FALSE],
                                      [c \in DOMAIN sensor_network.chargers |-> FALSE])} :
               /\ current_step' = r.current_step
               /\ step_id' = r.step_id
               /\ sensor_network' = r.sensor_network
               /\ vm' = r.vm
               /\ depot_state' = r.depot_state
               /\ sensor_readings' = r.sensor_readings
               /\ control_actions' = r.control_actions
               /\ faults_detected' = r.faults_detected
               /\ db_log' = r.db_log
               /\ draw_failed' = draw_failed \cup r.draw_failed
    /\ UNCHANGED <<config, pc, loop_i, db_run, results, returned, last_call>>

\* _finalize_simulation
ApiFinalizeSimulation ==
    /\ pc = "not_started"
    /\ db_run' = FinalizeRun(db_run, RunId, current_step)
    /\ UNCHANGED <<config, pc, loop_i, current_step, step_id, sensor_network, vm,
                   depot_state, sensor_readings, control_actions, faults_detected,
                   db_log, draw_failed, results, returned, last_call>>

ApiNext == ApiStartSimulation \/ ApiRunStep \/ ApiFinalizeSimulation

SpecApi == HarnessInit /\ [][ApiNext]_vars

-----------------------------------------------------------------------------
\* A sensor bench: the methods of the three sensor classes called one at a
\* time on the devices of a new engine's network, in any order, together
\* with the engine's scheduled injection; last_call holds the call just made
\* and, for a read, the reading it returned.

SensorsInit ==
    /\ Init
    /\ config.max_steps = MaxSteps
    /\ config.vehicle_arrival_rate = DefaultArrivalRate
    /\ config.noise_level = DefaultNoiseLevel

SensorsFrame ==
    UNCHANGED <<config, pc, loop_i, current_step, step_id, vm, depot_state,
                sensor_readings, control_actions, faults_detected, db_run,
                db_log, draw_failed, results, returned>>

SensorsGateRead ==
    /\ pc = "not_started"
    /\ \E g \in DOMAIN sensor_network.gates,
          draw \in RandomLess(GateFailureRate) :
          \E r \in {GateSensorRead(sensor_network.gates[g], draw)} :
              /\ sensor_network' = [sensor_network EXCEPT !.gates[g] = r.sensor]
              /\ last_call' = [op |-> "read", device |-> <<"gate", g>>,
                               reading |-> r.reading]
    /\ SensorsFrame

SensorsGateSetState ==
    /\ pc = "not_started"
    /\ \E g \in DOMAIN sensor_network.gates, is_open \in BOOLEAN :
          /\ sensor_network' =
                [sensor_network EXCEPT !.gates[g] = GateSensorSetState(@, is_open)]
          /\ last_call' = [op |-> "set_state", device |-> <<"gate", g>>,
                           arg |-> is_open]
    /\ SensorsFrame

SensorsOccupancyRead ==
    /\ pc = "not_started"
    /\ \E sp \in DOMAIN sensor_network.occupancy_sensors,
          noise \in RandomLess(NoiseRate) :
          \E r \in {OccupancySensorRead(sensor_network.occupancy_sensors[sp], noise)} :
              /\ sensor_network' =
                    [sensor_network EXCEPT !.occupancy_sensors[sp] = r.sensor]
              /\ last_call' = [op |-> "read", device |-> <<"spot", sp>>,
                               reading |-> r.reading]
    /\ SensorsFrame

SensorsSetOccupancy ==
    /\ pc = "not_started"
    /\ \E sp \in DOMAIN sensor_network.occupancy_sensors, occupied \in BOOLEAN :
          /\ sensor_network' =
                [sensor_network EXCEPT !.occupancy_sensors[sp] =
                                          OccupancySensorSetOccupancy(@, occupied)]
          /\ last_call' = [op |-> "set_occupancy", device |-> <<"spot", sp>>,
                           arg |-> occupied]
    /\ SensorsFrame

SensorsChargerRead ==
    /\ pc = "not_started"
    /\ \E c \in DOMAIN sensor_network.chargers,
          draw \in RandomLess(ChargerFailureRate) :
          \E r \in {ChargerSensorRead(sensor_network.chargers[c], draw)} :
              /\ sensor_network' = [sensor_network EXCEPT !.chargers[c] = r.sensor]
              /\ last_call' = [op |-> "read", device |-> <<"charger", c>>,
                               reading |-> r.reading]
    /\ SensorsFrame

SensorsChargerCall ==
    /\ pc = "not_started"
    /\ \E c \in DOMAIN sensor_network.chargers :
          \/ /\ sensor_network' =
                   [sensor_network EXCEPT !.chargers[c] = ChargerSensorConnectVehicle(@)]
             /\ last_call' = [op |-> "connect_vehicle", device |-> <<"charger", c>>]
          \/ /\ sensor_network' =
                   [sensor_network EXCEPT !.chargers[c] =
                                             ChargerSensorDisconnectVehicle(@)]
             /\ last_call' = [op |-> "disconnect_vehicle", device |-> <<"charger", c>>]
          \/ /\ sensor_network' =
                   [sensor_network EXCEPT !.chargers[c] =
                       ChargerSensorStartCharging(@, DefaultPowerKw)]
             /\ last_call' = [op |-> "start_charging", device |-> <<"charger", c>>]
          \/ /\ sensor_network' =
                   [sensor_network EXCEPT !.chargers[c] = ChargerSensorStopCharging(@)]
             /\ last_call' = [op |-> "stop_charging", device |-> <<"charger", c>>]
    /\ SensorsFrame

\* the engine's _inject_failures at a step index the bench chooses
SensorsInjectFailures ==
    /\ pc = "not_started"
    /\ \E step \in 1 .. MaxFailStep :
          /\ sensor_network' = InjectFailures(sensor_network, config, step)
          /\ last_call' = [op |-> "inject_failures", device |-> <<"network", step>>]
    /\ SensorsFrame

SensorsNext ==
    \/ SensorsGateRead
    \/ SensorsGateSetState
    \/ SensorsOccupancyRead
    \/ SensorsSetOccupancy
    \/ SensorsChargerRead
    \/ SensorsChargerCall
    \/ SensorsInjectFailures

SpecSensors == SensorsInit /\ [][SensorsNext]_vars

-----------------------------------------------------------------------------
\* A run on a depot in use: before the start the bench registers vehicles
\* that hold a spot through assign_spot and are CHARGING one charge advance
\* short of their target, as a vehicle is late in a long run; the run itself
\* is run_complete_simulation with every draw and the scheduled failures.

StagesInit ==
    /\ Init
    /\ config.max_steps = MaxSteps
    /\ config.vehicle_arrival_rate = DefaultArrivalRate
    /\ config.noise_level = DefaultNoiseLevel

StagesAddVehicle ==
    /\ pc = "not_started"
    /\ Len(vm.vehicles) < MaxVehicles
    /\ \E sp \in Spots, c \in Chargers :
          \E id \in {Len(vm.vehicles) + 1} :
              \E r \in {AssignSpot(AddVehicle(vm, CreateNewVehicle(id, 0)), id, sp)} :
                  /\ r.ok
                  /\ vm' = [r.vm EXCEPT
                               !.vehicles[id].state = "charging",
                               !.vehicles[id].assigned_charger = c,
                               !.vehicles[id].charge_level =
                                   TargetCharge - ChargeRate]
    /\ UNCHANGED <<config, pc, loop_i, current_step, step_id, sensor_network,
                   depot_state, sensor_readings, control_actions, faults_detected,
                   db_run, db_log, draw_failed, results, returned, last_call>>

StagesNext ==
    \/ StagesAddVehicle
    \/ StartSimulation
    \/ RunStep
    \/ FinalizeSimulation

SpecStages == StagesInit /\ [][StagesNext]_vars

-----------------------------------------------------------------------------
\* A long run with failures: run_complete_simulation with max_steps =
\* LongSteps, no arrivals, every sensor draw, and each scheduled failure
\* absent or at step MaxFailStep.

StickyInit ==
    /\ config \in [num_gates : {NumGates}, num_spots : {NumSpots},
                   num_chargers : {NumChargers}, max_steps : {LongSteps},
                   vehicle_arrival_rate : {0},
                   charger_failure_step : FailSteps,
                   gate_failure_step : FailSteps,
                   noise_level : {DefaultNoiseLevel}]
    /\ pc = "not_started"
    /\ loop_i = 0
    /\ current_step = 0
    /\ step_id = NONE
    /\ sensor_network = NewSensorNetwork(config.num_gates, config.num_spots,
                                         config.num_chargers)
    /\ vm = NewVehicleManager
    /\ depot_state = NewDepotState(config.num_gates, config.num_spots,
                                   config.num_chargers)
    /\ sensor_readings = <<>>
    /\ control_actions = <<>>
    /\ faults_detected = <<>>
    /\ db_run = <<>>
    /\ db_log = <<>>
    /\ draw_failed = {}
    /\ results = <<>>
    /\ returned = <<>>
    /\ last_call = NoCall

SpecSticky == StickyInit /\ [][Next]_vars

-----------------------------------------------------------------------------
\* Properties

Vehicles == vm.vehicles

\* the faults of the run with the given type
FaultsOfType(t) == {k \in DOMAIN faults_detected : faults_detected[k].fault_type = t}

\* the reading of a device in the last snapshot
ReadingOf(name) ==
    sensor_readings[CHOOSE k \in DOMAIN sensor_readings :
                        sensor_readings[k].sensor_name = name]

\* vehicles whose assigned_spot is s
Claimants(s) == {i \in DOMAIN Vehicles : Vehicles[i].assigned_spot = s}

\* an occupancy_conflict fault for spot s was emitted in the current step
ConflictReported(s) ==
    \E k \in FaultsOfType("occupancy_conflict") :
        /\ faults_detected[k].affected_component = <<"spot", s>>
        /\ faults_detected[k].detected_at = current_step
        /\ faults_detected[k].step_id = step_id

\* C1: at the end of every step, every spot has at most one claimant in the
\* registry or an occupancy_conflict fault for that spot was emitted in the
\* step (checked on registries a harness filled with conflicting claims)
C1_ConflictCountedOrReported ==
    current_step >= 1 =>
        \A s \in Spots : Cardinality(Claimants(s)) <= 1 \/ ConflictReported(s)

C1_Witness ==
    /\ current_step >= 2
    /\ \E s \in Spots : Cardinality(Claimants(s)) >= 2 /\ ConflictReported(s)

\* C2: a run of the engine alone (no claim injected into the registry)
\* never emits an occupancy_conflict fault, whatever the draws
C2_NoOccupancyConflict == FaultsOfType("occupancy_conflict") = {}

C2_Witness ==
    /\ current_step >= 3
    /\ \E i, j \in DOMAIN Vehicles :
          /\ i # j
          /\ Vehicles[i].assigned_spot # NONE
          /\ Vehicles[j].assigned_spot # NONE
    /\ \E k \in FaultsOfType("sensor_noise") : TRUE

\* C3: no two vehicles that are CHARGING at the same time have the same
\* assigned_charger (the statement of the claim; the code violates it)
C3_ChargerExclusive ==
    \A i, j \in DOMAIN Vehicles :
        (/\ i # j
         /\ Vehicles[i].state = "charging"
         /\ Vehicles[j].state = "charging"
         /\ Vehicles[i].assigned_charger # NONE)
        => Vehicles[i].assigned_charger # Vehicles[j].assigned_charger

\* C4: in every step a vehicle's charge_level does not decrease if the
\* vehicle is CHARGING when the charge update runs, is unchanged otherwise,
\* and every charge_level stays within [0, 1]
C4_ChargeLevel ==
    [][/\ \A i \in DOMAIN Vehicles :
             IF Vehicles[i].state = "charging"
             THEN vm'.vehicles[i].charge_level >= Vehicles[i].charge_level
             ELSE vm'.vehicles[i].charge_level = Vehicles[i].charge_level
       /\ \A i \in DOMAIN vm'.vehicles :
             /\ vm'.vehicles[i].charge_level >= 0
             /\ vm'.vehicles[i].charge_level <= FullCharge]_vars

C4_Witness ==
    /\ current_step >= 2
    /\ \E i, j \in DOMAIN Vehicles :
          /\ Vehicles[i].state \in {"exiting", "departed"}
          /\ Vehicles[i].charge_level = FullCharge
          /\ Vehicles[j].state = "charging"
          /\ Vehicles[j].charge_level > InitialCharge
          /\ Vehicles[j].charge_level < TargetCharge

\* the failed flag of a device is set when the next step reads it: it is set
\* now, or the scheduled injection of that step sets it
FailedAtNextRead(name) ==
    IF name[1] = "gate"
    THEN \/ sensor_network.gates[name[2]].is_failed
         \/ (name[2] = 0 /\ Truthy(config.gate_failure_step)
                /\ current_step + 1 = config.gate_failure_step)
    ELSE \/ sensor_network.chargers[name[2]].is_failed
         \/ (name[2] = 0 /\ Truthy(config.charger_failure_step)
                /\ current_step + 1 = config.charger_failure_step)

FailableDevices ==
    {<<"gate", g>> : g \in Gates} \cup {<<"charger", c>> : c \in Chargers}

FailedFlag(network, name) ==
    IF name[1] = "gate" THEN network.gates[name[2]].is_failed
    ELSE network.chargers[name[2]].is_failed

\* C5: once the failed flag of a gate or charger sensor is set, by a draw or
\* by the scheduled injection, the flag stays set and every later read of the
\* device reports is_fault
C5_FailedIsSticky ==
    [][\A name \in FailableDevices :
          /\ FailedFlag(sensor_network, name) => FailedFlag(sensor_network', name)
          /\ (FailedAtNextRead(name) /\ current_step' # current_step)
                => /\ ReadingOf(name)'.is_fault
                   /\ FailedFlag(sensor_network', name)]_vars

C5_Witness ==
    /\ \E k \in FaultsOfType("gate_stuck") :
          /\ faults_detected[k].detected_at + 2 <= current_step
          /\ ReadingOf(faults_detected[k].affected_component).is_fault
    /\ \E k \in FaultsOfType("charger_failure") :
          /\ faults_detected[k].detected_at + 2 <= current_step
          /\ ReadingOf(faults_detected[k].affected_component).is_fault
    /\ draw_failed # {}

\* C6: with vehicle_arrival_rate = 0 the registry stays empty and no step
\* emits a control action, whatever noise and failures occur
C6_IdleDepot ==
    config.vehicle_arrival_rate = 0 =>
        /\ Vehicles = <<>>
        /\ control_actions = <<>>
        /\ \A k \in DOMAIN db_log : db_log[k].table # "control_actions"

C6_Witness ==
    /\ config.vehicle_arrival_rate = 0
    /\ current_step >= 3
    /\ FaultsOfType("sensor_noise") # {}
    /\ FaultsOfType("gate_stuck") # {}
    /\ \A c \in Chargers : sensor_network.chargers[c].is_failed

\* C7: when a charger failure is scheduled at step S and the run has
\* executed step S, a charger_failure fault with detected_at <= S + 5 exists
C7_ChargerFailureDetectedInTime ==
    (Truthy(config.charger_failure_step)
        /\ current_step >= config.charger_failure_step)
    => \E k \in FaultsOfType("charger_failure") :
          faults_detected[k].detected_at
              <= config.charger_failure_step + DetectionWindow

C7_Witness ==
    /\ Truthy(config.charger_failure_step)
    /\ current_step > config.charger_failure_step
    /\ FaultsOfType("charger_failure") # {}
    /\ \A k \in FaultsOfType("charger_failure") :
          /\ faults_detected[k].detected_at >= config.charger_failure_step
          /\ faults_detected[k].affected_component = <<"charger", 0>>

\* C8 as stated: with a charger failure scheduled at step S, no
\* charger_failure fault has detected_at < S
C8_NoChargerFaultBeforeInjection ==
    Truthy(config.charger_failure_step) =>
        \A k \in FaultsOfType("charger_failure") :
            faults_detected[k].detected_at >= config.charger_failure_step

\* C8 amended: with a charger failure scheduled at step S, every
\* charger_failure fault with detected_at < S names a charger whose failed
\* flag was set by a read-time failure draw; the injection causes none
C8_EarlyChargerFaultsAreDrawn ==
    Truthy(config.charger_failure_step) =>
        \A k \in FaultsOfType("charger_failure") :
            faults_detected[k].detected_at < config.charger_failure_step
                => faults_detected[k].affected_component \in draw_failed

C8_Witness ==
    /\ Truthy(config.charger_failure_step)
    /\ current_step > config.charger_failure_step
    /\ \E k \in FaultsOfType("charger_failure") :
          /\ faults_detected[k].detected_at < config.charger_failure_step
          /\ faults_detected[k].affected_component = <<"charger", 1>>
    /\ \E k \in FaultsOfType("charger_failure") :
          /\ faults_detected[k].detected_at = config.charger_failure_step
          /\ faults_detected[k].affected_component = <<"charger", 0>>
    /\ ~(\E k \in FaultsOfType("charger_failure") :
          /\ faults_detected[k].detected_at < config.charger_failure_step
          /\ faults_detected[k].affected_component = <<"charger", 0>>)

\* the faults emitted in the current step
StepFaults == {k \in DOMAIN faults_detected :
                  faults_detected[k].detected_at = current_step}

Stopped == pc \in {"finalize", "done"}

\* what is left of run_complete_simulation: start, the iterations of the
\* loop still to run, finalize
RunRank ==
    CASE pc = "not_started" -> config.max_steps + 2
      [] pc = "loop" -> config.max_steps - loop_i + 1
      [] pc = "finalize" -> 1
      [] OTHER -> 0

\* C10: run_complete_simulation terminates after at most max_steps steps
\* (every move of the run uses up a bounded measure); it goes on to another
\* step only with at most 10 cumulative faults; and when it has stopped
\* before max_steps, the cumulative faults exceed 10 and did not before the
\* last step
C10_Termination ==
    /\ [](/\ current_step <= config.max_steps
          /\ loop_i = current_step
          /\ RunRank >= 0
          /\ pc = "loop" => /\ Len(faults_detected) <= FaultLimit
                            /\ current_step < config.max_steps
          /\ (Stopped /\ current_step < config.max_steps)
                => Len(faults_detected) > FaultLimit
          /\ (Stopped /\ current_step >= 1)
                => Len(faults_detected) - Cardinality(StepFaults) <= FaultLimit)
    /\ [][RunRank' < RunRank]_vars

C10_Witness ==
    /\ pc = "loop"
    /\ current_step >= 1
    /\ Len(faults_detected) = FaultLimit

\* the row of this run in simulation_runs
RunRow == db_run[CHOOSE k \in DOMAIN db_run : db_run[k].run_id = RunId]

\* C11: the total_steps returned and stamped on the run record at finalize
\* equals the steps executed (the step counter, the length of step_results);
\* the step indexes are 1..total_steps in order; and total_steps >= 1
\* whenever max_steps >= 1
C11_TotalSteps ==
    /\ Len(results) = current_step
    /\ \A k \in DOMAIN results : results[k].step = k
    /\ current_step >= 1 =>
          /\ db_log[1].table = "simulation_steps"
          /\ db_log[1].row = current_step
    /\ pc = "done" =>
          /\ Len(returned) = 1
          /\ returned[1].total_steps = current_step
          /\ returned[1].total_steps = Len(returned[1].step_results)
          /\ \A k \in DOMAIN returned[1].step_results :
                returned[1].step_results[k].step = k
          /\ RunRow.total_steps = returned[1].total_steps
          /\ RunRow.end_time = "set"
          /\ config.max_steps >= 1 => returned[1].total_steps >= 1

C11_Witness ==
    /\ pc = "done"
    /\ RunRow.total_steps >= 2
    /\ RunRow.total_steps < config.max_steps
    /\ Len(returned[1].step_results) = RunRow.total_steps

\* the devices of the configured depot in the order the spec fixes for a
\* snapshot: gates by id, then spots, then chargers
DevicesInOrder ==
    [k \in 1 .. (config.num_gates + config.num_spots + config.num_chargers) |->
        IF k <= config.num_gates THEN <<"gate", k - 1>>
        ELSE IF k <= config.num_gates + config.num_spots
             THEN <<"spot", k - 1 - config.num_gates>>
             ELSE <<"charger", k - 1 - config.num_gates - config.num_spots>>]

\* the number of fault rows at the end of the last step's log
LoggedFaults == Len(db_log) - 1 - Len(DevicesInOrder) - Len(control_actions)

\* C12: the log sink receives per step, in this order, one step record, one
\* sensor reading record per device (gates by id, then spots, then
\* chargers), the step's control action records, the step's fault event
\* records; and the steps hand over their records in step order
C12_LogOrder ==
    /\ [](current_step >= 1 =>
            /\ db_log[1].table = "simulation_steps"
            /\ db_log[1].row = current_step
            /\ \A k \in DOMAIN DevicesInOrder :
                  /\ db_log[1 + k].table = "sensor_readings"
                  /\ db_log[1 + k].row.sensor_name = DevicesInOrder[k]
            /\ \A k \in DOMAIN control_actions :
                  /\ db_log[1 + Len(DevicesInOrder) + k].table = "control_actions"
                  /\ db_log[1 + Len(DevicesInOrder) + k].row = control_actions[k]
            /\ LoggedFaults = Cardinality(StepFaults)
            /\ \A k \in 1 .. LoggedFaults :
                  /\ db_log[Len(db_log) - LoggedFaults + k].table = "fault_events"
                  /\ db_log[Len(db_log) - LoggedFaults + k].row =
                        faults_detected[Len(faults_detected) - LoggedFaults + k]
                  /\ db_log[Len(db_log) - LoggedFaults + k].row.detected_at
                        = current_step)
    /\ [][db_log' # db_log =>
            /\ current_step' = current_step + 1
            /\ db_log'[1].row = current_step']_vars

C12_Witness ==
    /\ current_step >= 2
    /\ control_actions # <<>>
    /\ LoggedFaults >= 2
    /\ Len(faults_detected) > LoggedFaults

\* C13 as stated: every sensor reading, control action and fault event
\* record of a step carries the step_id of the step record of that step
\* (the code gives control actions another step_id)
C13_RecordsCarryStepId ==
    \A k \in DOMAIN db_log : db_log[k].step_id = db_log[1].step_id

\* spot s is reported free in the snapshot of the step just taken and no
\* vehicle holds it before or after the step
SpotClaimable(s) ==
    /\ ~depot_state'.spot_occupancy[s]
    /\ DictGet(vm.vehicle_positions, s, NONE) = NONE
    /\ DictGet(vm'.vehicle_positions, s, NONE) = NONE

\* C14 as stated: a vehicle that is WAITING when a step processes it moves to
\* ENTERING in that step if admission is possible and a spot can be claimed
\* (the code never moves a WAITING vehicle)
C14_WaitingIsAdmitted ==
    [][current_step' # current_step =>
          \A i \in DOMAIN Vehicles :
              (/\ Vehicles[i].state = "waiting"
               /\ CanAdmitVehicle(depot_state')
               /\ \E s \in DOMAIN depot_state'.spot_occupancy : SpotClaimable(s))
              => vm'.vehicles[i].state = "entering"]_vars

\* vehicle i is APPROACHING when the step just taken processes it: it was
\* APPROACHING before the step or arrived in it
ApproachingWhenProcessed(i) ==
    IF i \in DOMAIN Vehicles THEN Vehicles[i].state = "approaching" ELSE TRUE

\* C15 as stated: an APPROACHING vehicle processed in a step in which
\* admission is not possible moves to WAITING in that step, and moves to
\* ENTERING only when admission is possible and a spot was claimed for it
\* (the code leaves it APPROACHING when admission is not possible)
C15_ApproachingWaitsWithoutCapacity ==
    [][current_step' # current_step =>
          \A i \in DOMAIN vm'.vehicles :
              ApproachingWhenProcessed(i) =>
                  /\ ~CanAdmitVehicle(depot_state')
                        => vm'.vehicles[i].state = "waiting"
                  /\ vm'.vehicles[i].state = "entering"
                        => /\ CanAdmitVehicle(depot_state')
                           /\ vm'.vehicles[i].assigned_spot # NONE]_vars

\* C17 as stated: a CHARGING vehicle routed to WAITING because its charger
\* failed no longer names that charger in assigned_charger (the code leaves
\* assigned_charger as it was)
C17_FailedChargerRelinquished ==
    [][\A i \in DOMAIN Vehicles :
          (Vehicles[i].state = "charging" /\ vm'.vehicles[i].state = "waiting")
          => vm'.vehicles[i].assigned_charger # Vehicles[i].assigned_charger]_vars

\* the charger is reported failed in the snapshot the depot state holds
ReportedFailed(ds, c) ==
    /\ c \in DOMAIN ds.charger_status
    /\ DictGet(ds.charger_status[c], "failed", FALSE)

\* the fault_response actions of a list that target vehicle id
FaultResponses(actions, id) ==
    {k \in DOMAIN actions :
        /\ actions[k].action_type = "fault_response"
        /\ actions[k].target = <<"vehicle", id>>}

\* C16: in every step, a CHARGING vehicle that has not reached its target
\* charge when the controller processes it and whose assigned charger is
\* reported failed in the step's snapshot moves to WAITING in that step with
\* exactly one fault_response action targeting it; after a step no vehicle
\* below its target is CHARGING on a charger reported failed
C16_FailedChargerRoutesToWaiting ==
    /\ [][current_step' # current_step =>
            \A i \in DOMAIN Vehicles :
                (/\ Vehicles[i].state = "charging"
                 /\ vm'.vehicles[i].charge_level < vm'.vehicles[i].target_charge
                 /\ ReportedFailed(depot_state', Vehicles[i].assigned_charger))
                => /\ vm'.vehicles[i].state = "waiting"
                   /\ Cardinality(FaultResponses(control_actions',
                                                 Vehicles[i].vehicle_id)) = 1]_vars
    /\ [](\A i \in DOMAIN Vehicles :
            (/\ current_step >= 1
             /\ Vehicles[i].state = "charging"
             /\ Vehicles[i].charge_level < Vehicles[i].target_charge)
            => ~ReportedFailed(depot_state, Vehicles[i].assigned_charger))

C16_Witness ==
    /\ \E i \in DOMAIN Vehicles :
          /\ Vehicles[i].state = "waiting"
          /\ ReportedFailed(depot_state, Vehicles[i].assigned_charger)
          /\ FaultResponses(control_actions, Vehicles[i].vehicle_id) # {}
    /\ \E j \in DOMAIN Vehicles : Vehicles[j].state = "charging"

\* C18 as stated: when a vehicle goes EXITING -> DEPARTED, the registry maps
\* its former spot to no vehicle and the vehicle has no assigned_spot and no
\* assigned_charger (the code leaves assigned_charger as it was)
C18_DepartureFreesClaims ==
    [][\A i \in DOMAIN Vehicles :
          (Vehicles[i].state = "exiting" /\ vm'.vehicles[i].state = "departed")
          => /\ Vehicles[i].assigned_spot # NONE
                   => DictGet(vm'.vehicle_positions, Vehicles[i].assigned_spot, NONE)
                          = NONE
             /\ vm'.vehicles[i].assigned_spot = NONE
             /\ vm'.vehicles[i].assigned_charger = NONE]_vars

\* C19: once a vehicle is DEPARTED no later step changes its state or any
\* of its fields, and no step removes a vehicle from the registry: the
\* registered ids only grow
C19_DepartedIsTerminal ==
    [][/\ Len(vm'.vehicles) >= Len(Vehicles)
       /\ \A i \in DOMAIN Vehicles :
             /\ vm'.vehicles[i].vehicle_id = Vehicles[i].vehicle_id
             /\ Vehicles[i].state = "departed" => vm'.vehicles[i] = Vehicles[i]]_vars

C19_Witness ==
    \E i, j \in DOMAIN Vehicles :
        /\ Vehicles[i].state = "departed"
        /\ Vehicles[i].departure_time < current_step
        /\ Vehicles[j].arrival_time > Vehicles[i].departure_time
        /\ Vehicles[j].assigned_spot = 0
        /\ DictGet(vm.vehicle_positions, 0, NONE) = Vehicles[j].vehicle_id

\* the gate decision the spec fixes, on the state a step leaves: a vehicle is
\* WAITING or APPROACHING, a spot is reported free and a charger is not
\* reported failed
GateDecision ==
    /\ \E i \in DOMAIN Vehicles : Vehicles[i].state \in {"waiting", "approaching"}
    /\ \E s \in DOMAIN depot_state.spot_occupancy : ~depot_state.spot_occupancy[s]
    /\ \E c \in DOMAIN depot_state.charger_status : ~ReportedFailed(depot_state, c)

\* the gate_control actions of the last step on gate g
GateActions(g) ==
    {k \in DOMAIN control_actions :
        /\ control_actions[k].action_type = "gate_control"
        /\ control_actions[k].target = <<"gate", g>>}

GateCommands(g) == {control_actions[k].command : k \in GateActions(g)}

\* C20: per step and gate, an open action is emitted iff the decision (taken
\* after all vehicles were processed) is open and the gate is reported
\* closed, a close action iff the decision is closed and the gate is
\* reported open, at most one gate action per gate, after the vehicles'
\* actions
C20_GateControl ==
    current_step >= 1 =>
        \A g \in 0 .. (config.num_gates - 1) :
            /\ <<"open">> \in GateCommands(g)
                  <=> (GateDecision /\ ~depot_state.gate_states[g])
            /\ <<"close">> \in GateCommands(g)
                  <=> (~GateDecision /\ depot_state.gate_states[g])
            /\ GateCommands(g) \subseteq {<<"open">>, <<"close">>}
            /\ Cardinality(GateActions(g)) <= 1
            /\ \A k \in GateActions(g) :
                  \A j \in DOMAIN control_actions :
                      control_actions[j].action_type # "gate_control" => j < k

C20_Witness ==
    /\ current_step >= 2
    /\ GateDecision
    /\ <<"open">> \in GateCommands(0)
    /\ \E j \in DOMAIN control_actions : control_actions[j].action_type # "gate_control"

\* the faults the last step emitted, in order: the tail of faults_detected
LastFaults == SubSeq(faults_detected, Len(faults_detected) - LoggedFaults + 1,
                     Len(faults_detected))

\* the fault type the spec fixes for a device kind
KindFaultType(kind) ==
    CASE kind = "charger" -> "charger_failure"
      [] kind = "gate" -> "gate_stuck"
      [] OTHER -> "sensor_noise"

\* the readings of the last snapshot flagged is_fault
FlaggedReadings == {k \in DOMAIN sensor_readings : sensor_readings[k].is_fault}

ConflictedSpots == {s \in Spots : Cardinality(Claimants(s)) >= 2}

\* the faults of the last step of one kind for one component
LastFaultsFor(level, type, component) ==
    {k \in DOMAIN LastFaults :
        /\ LastFaults[k].alert_level = level
        /\ LastFaults[k].fault_type = type
        /\ LastFaults[k].affected_component = component}

\* C21: the faults a step emits are exactly one WARNING fault per reading of
\* the snapshot flagged is_fault, typed by the kind of device, plus one
\* CRITICAL occupancy_conflict fault per conflicted spot naming the vehicles
\* claiming it; each has detected_at = the step index; there is no other
C21_FaultsOfStep ==
    current_step >= 1 =>
        /\ \A k \in FlaggedReadings :
              Cardinality(LastFaultsFor("warning",
                              KindFaultType(sensor_readings[k].sensor_type),
                              sensor_readings[k].sensor_name)) = 1
        /\ \A s \in ConflictedSpots :
              /\ Cardinality(LastFaultsFor("critical", "occupancy_conflict",
                                           <<"spot", s>>)) = 1
              /\ \A k \in LastFaultsFor("critical", "occupancy_conflict", <<"spot", s>>) :
                    {LastFaults[k].description[3][n] :
                        n \in DOMAIN LastFaults[k].description[3]}
                    = {Vehicles[i].vehicle_id : i \in Claimants(s)}
        /\ Len(LastFaults) = Cardinality(FlaggedReadings) + Cardinality(ConflictedSpots)
        /\ \A k \in DOMAIN LastFaults :
              /\ LastFaults[k].detected_at = current_step
              /\ LastFaults[k].resolved_at = NONE
        /\ \A k \in DOMAIN faults_detected :
              faults_detected[k].detected_at = current_step
                  => k > Len(faults_detected) - Len(LastFaults)

C21_Witness ==
    /\ current_step >= 2
    /\ ConflictedSpots # {}
    /\ \E k \in FlaggedReadings : sensor_readings[k].sensor_type = "occupancy"
    /\ \E k \in FlaggedReadings : sensor_readings[k].sensor_type = "charger"
    /\ Len(LastFaults) = 3

\* the steps at which a fault for the component was emitted
FaultSteps(component) ==
    {faults_detected[k].detected_at :
        k \in {j \in DOMAIN faults_detected :
                  faults_detected[j].affected_component = component}}

\* C22: faults are not deduplicated: once a gate or charger is failed, every
\* executed step from then on emits a fresh WARNING fault for it (one per
\* step), and no fault ever gets resolved_at set
C22_NoDeduplication ==
    /\ [](\A name \in FailableDevices :
            /\ \A k \in FaultSteps(name) : \A n \in k .. current_step :
                  n \in FaultSteps(name)
            /\ (FailedFlag(sensor_network, name) /\ current_step >= 1)
                  => current_step \in FaultSteps(name)
            /\ \A n \in FaultSteps(name) :
                  Cardinality({j \in DOMAIN faults_detected :
                                  /\ faults_detected[j].affected_component = name
                                  /\ faults_detected[j].detected_at = n
                                  /\ faults_detected[j].alert_level = "warning"}) = 1)
    /\ [](\A k \in DOMAIN faults_detected : faults_detected[k].resolved_at = NONE)
    /\ [][\A k \in DOMAIN faults_detected :
              /\ k \in DOMAIN faults_detected'
              /\ faults_detected'[k] = faults_detected[k]]_vars

C22_Witness ==
    /\ current_step >= 4
    /\ \E k \in FaultSteps(<<"charger", 0>>) :
          /\ k + 2 <= current_step
          /\ k = config.charger_failure_step
    /\ \E k \in FaultSteps(<<"gate", 0>>) :
          /\ k + 2 <= current_step
          /\ <<"gate", 0>> \in draw_failed

\* C23 as stated: process_step never aborts on a malformed or unknown
\* sensor name, and the depot-state view keeps only the configured device
\* ids (the code raises on a non-numeric id and stores an out-of-range id)
C23_ForeignNamesIgnored ==
    /\ pc # "raised"
    /\ DOMAIN depot_state.gate_states = Gates
    /\ DOMAIN depot_state.spot_occupancy = Spots
    /\ DOMAIN depot_state.charger_status = Chargers

\* C24 as stated: in a run configured with noise probability 0 no occupancy
\* reading is flagged is_fault or flipped and no sensor_noise fault is
\* emitted (the occupancy sensors keep their own default noise rate)
C24_ConfiguredNoiseIsUsed ==
    config.noise_level = 0 =>
        /\ FaultsOfType("sensor_noise") = {}
        /\ \A k \in DOMAIN sensor_readings :
              sensor_readings[k].sensor_type = "occupancy"
                  => /\ ~sensor_readings[k].is_fault
                     /\ sensor_readings[k].value
                          = sensor_network.occupancy_sensors[
                                sensor_readings[k].sensor_name[2]].is_occupied

\* the vehicles of a registry that claim spot s in their own field
ClaimantsIn(m, s) == {i \in DOMAIN m.vehicles : m.vehicles[i].assigned_spot = s}

\* C25: assign_spot(v, s) returns true iff v is registered and no vehicle
\* claims s; on success v.assigned_spot = s, the registry maps s to v, the
\* spot v held before is released and nothing else changes; on failure
\* neither the registry map nor any vehicle changes
C25_AssignSpotContract ==
    [][last_call'.op = "assign_spot" =>
          LET v == last_call'.vehicle_id
              s == last_call'.spot_id
          IN  /\ last_call'.result
                    <=> (v \in DOMAIN Vehicles /\ ClaimantsIn(vm, s) = {})
              /\ last_call'.result =>
                    /\ vm'.vehicles[v].assigned_spot = s
                    /\ vm'.vehicle_positions[s] = v
                    /\ ClaimantsIn(vm', s) = {v}
                    /\ \A t \in Spots \ {s} :
                          /\ ClaimantsIn(vm', t) = ClaimantsIn(vm, t) \ {v}
                          /\ DictGet(vm'.vehicle_positions, t, NONE)
                                = IF Vehicles[v].assigned_spot = t THEN NONE
                                  ELSE DictGet(vm.vehicle_positions, t, NONE)
                    /\ \A i \in DOMAIN Vehicles \ {v} : vm'.vehicles[i] = Vehicles[i]
                    /\ vm'.vehicles[v] = [Vehicles[v] EXCEPT !.assigned_spot = s]
              /\ ~last_call'.result => vm' = vm]_vars

C25_Witness ==
    /\ last_call.op = "assign_spot"
    /\ last_call.result
    /\ Len(Vehicles) = 2
    /\ \E t \in Spots \ {last_call.spot_id} :
          /\ t \in DOMAIN vm.vehicle_positions
          /\ vm.vehicle_positions[t] = NONE
    /\ \A i \in DOMAIN Vehicles : i # last_call.vehicle_id
          => Vehicles[i].assigned_spot = NONE

\* the run record exists / carries an end time (a timestamp, not None)
Started == \E k \in DOMAIN db_run : db_run[k].run_id = RunId

Finalized == \E k \in DOMAIN db_run :
                db_run[k].run_id = RunId /\ db_run[k].end_time # NoTime

\* C26 as stated: for every sequence of calls, no step is executed before
\* start or after finalize, the run record is created once at start and
\* updated once at finalize, and a finalized engine is not started again
\* (the operations of the code do not test where the run is)
C26_Lifecycle ==
    /\ [](current_step >= 1 => Started)
    /\ [](Len(db_run) <= 1)
    /\ [][Finalized => (current_step' = current_step /\ db_run' = db_run)]_vars

\* the spots claimed when the step just taken processes vehicle i: by the
\* vehicles before it in the registry as the step leaves them, by those after
\* it as the step found them
ClaimedWhenProcessed(i) ==
    {vm'.vehicles[j].assigned_spot : j \in {k \in DOMAIN vm'.vehicles : k < i}}
    \cup {Vehicles[j].assigned_spot : j \in {k \in DOMAIN Vehicles : k > i}}

\* the spots reported unoccupied in the step's snapshot and unclaimed when
\* vehicle i is processed
OpenSpots(i) ==
    {s \in 0 .. (config.num_spots - 1) :
        ~depot_state'.spot_occupancy[s] /\ s \notin ClaimedWhenProcessed(i)}

\* the chargers reported neither connected nor failed in the step's snapshot
OpenChargers ==
    {c \in 0 .. (config.num_chargers - 1) :
        /\ ~DictGet(depot_state'.charger_status[c], "connected", FALSE)
        /\ ~DictGet(depot_state'.charger_status[c], "failed", FALSE)}

\* C27: a vehicle admitted in a step receives the lowest-numbered spot that
\* is reported unoccupied in the step's snapshot and unclaimed in the
\* registry; a PARKING vehicle moved to CHARGING receives the lowest-numbered
\* charger reported neither connected nor failed
C27_FirstFit ==
    [][current_step' # current_step =>
          \A i \in DOMAIN vm'.vehicles :
              /\ (ApproachingWhenProcessed(i) /\ vm'.vehicles[i].state = "entering")
                    => /\ vm'.vehicles[i].assigned_spot \in OpenSpots(i)
                       /\ \A s \in OpenSpots(i) : vm'.vehicles[i].assigned_spot <= s
              /\ (/\ i \in DOMAIN Vehicles
                  /\ Vehicles[i].state = "parking"
                  /\ vm'.vehicles[i].state = "charging")
                    => /\ vm'.vehicles[i].assigned_charger \in OpenChargers
                       /\ \A c \in OpenChargers :
                             vm'.vehicles[i].assigned_charger <= c]_vars

C27_Witness ==
    \E i, j \in DOMAIN Vehicles :
        /\ i # j
        /\ Vehicles[i].state = "charging"
        /\ Vehicles[i].assigned_charger = 1
        /\ Vehicles[i].assigned_spot = 0
        /\ Vehicles[j].state = "entering"
        /\ Vehicles[j].assigned_spot = 1

\* the vehicles the step just taken moved from PARKING to CHARGING
StartedCharging ==
    {i \in DOMAIN Vehicles :
        Vehicles[i].state = "parking" /\ vm'.vehicles[i].state = "charging"}

\* the charger_assignment actions the step just taken emitted
ChargerAssignments ==
    SelectSeq(control_actions', LAMBDA a : a.action_type = "charger_assignment")

\* C28: a PARKING vehicle moves to CHARGING in a step iff some charger is
\* reported neither connected nor failed in the step's snapshot, and the
\* charger it is assigned is such a charger; otherwise it stays PARKING with
\* no assigned charger, and no charger_assignment action is emitted for it
C28_ParkingToCharging ==
    [][current_step' # current_step =>
          /\ \A i \in DOMAIN Vehicles :
                Vehicles[i].state = "parking" =>
                    IF OpenChargers # {}
                    THEN /\ vm'.vehicles[i].state = "charging"
                         /\ vm'.vehicles[i].assigned_charger \in OpenChargers
                    ELSE /\ vm'.vehicles[i].state = "parking"
                         /\ vm'.vehicles[i].assigned_charger = NONE
          /\ Len(ChargerAssignments) = Cardinality(StartedCharging)]_vars

C28_Witness ==
    \E i \in DOMAIN Vehicles :
        /\ Vehicles[i].state = "parking"
        /\ Vehicles[i].assigned_charger = NONE
        /\ current_step >= Vehicles[i].arrival_time + 2
        /\ \A c \in DOMAIN depot_state.charger_status :
              DictGet(depot_state.charger_status[c], "failed", FALSE)

\* the listed edges of the vehicle state machine
ListedEdges ==
    {<<"approaching", "entering">>, <<"approaching", "waiting">>,
     <<"waiting", "entering">>, <<"entering", "parking">>,
     <<"parking", "charging">>, <<"charging", "exiting">>,
     <<"charging", "waiting">>, <<"exiting", "departed">>}

\* C29: over a step every vehicle keeps its state or follows exactly one
\* listed edge; a vehicle that arrives in a step starts APPROACHING, so after
\* the step it is APPROACHING or one listed edge away from it; outside the
\* steps no vehicle changes state
C29_ListedEdgesOnly ==
    [][\A i \in DOMAIN vm'.vehicles :
          IF i \in DOMAIN Vehicles
          THEN \/ vm'.vehicles[i].state = Vehicles[i].state
               \/ /\ current_step' # current_step
                  /\ <<Vehicles[i].state, vm'.vehicles[i].state>> \in ListedEdges
          ELSE current_step' # current_step
                 => /\ vm'.vehicles[i].arrival_time = current_step'
                    /\ \/ vm'.vehicles[i].state = "approaching"
                       \/ <<"approaching", vm'.vehicles[i].state>> \in ListedEdges]_vars

C29_Witness ==
    \E i, j \in DOMAIN Vehicles :
        /\ Vehicles[i].state = "departed"
        /\ Vehicles[j].arrival_time >= 1
        /\ Vehicles[j].state = "parking"

\* what the claim expects of the injection at step `step` on network sn
ExpectedInjection(sn, step) ==
    [sn EXCEPT
        !.chargers = [c \in DOMAIN sn.chargers |->
            IF c = 0 /\ config.charger_failure_step # NONE
                     /\ step = config.charger_failure_step
            THEN [sn.chargers[c] EXCEPT !.is_failed = TRUE]
            ELSE sn.chargers[c]],
        !.gates = [g \in DOMAIN sn.gates |->
            IF g = 0 /\ config.gate_failure_step # NONE
                     /\ step = config.gate_failure_step
            THEN [sn.gates[g] EXCEPT !.is_failed = TRUE]
            ELSE sn.gates[g]]]

\* the failed flags the step just taken set
NewlyFailed ==
    {d \in FailableDevices :
        ~FailedFlag(sensor_network, d) /\ FailedFlag(sensor_network', d)}

\* the devices a scheduled injection names for step `step`
ScheduledAt(step) ==
    {<<"charger", 0>> : x \in {config.charger_failure_step} \cap {step}}
    \cup {<<"gate", 0>> : x \in {config.gate_failure_step} \cap {step}}

\* C30: on every network the run reaches, the scheduled injection changes
\* something only at the configured step index, and then only the failed flag
\* of charger 0 (resp. gate 0); applying it twice is applying it once; and
\* over a step the flags newly set are those of the devices scheduled for
\* exactly that step and those a read-time draw failed
C30_InjectionOneShotScoped ==
    /\ [](\A step \in 1 .. (MaxSteps + 1) :
            /\ InjectFailures(sensor_network, config, step)
                  = ExpectedInjection(sensor_network, step)
            /\ InjectFailures(InjectFailures(sensor_network, config, step),
                              config, step)
                  = InjectFailures(sensor_network, config, step))
    /\ [][current_step' # current_step =>
            /\ ScheduledAt(current_step') \subseteq
                  {d \in FailableDevices : FailedFlag(sensor_network', d)}
            /\ NewlyFailed \subseteq
                  (ScheduledAt(current_step') \cup (draw_failed' \ draw_failed))]_vars

C30_Witness ==
    /\ config.charger_failure_step # NONE
    /\ current_step > config.charger_failure_step
    /\ FailedFlag(sensor_network, <<"charger", 0>>)
    /\ ~FailedFlag(sensor_network, <<"charger", 1>>)
    /\ ~FailedFlag(sensor_network, <<"gate", 0>>)
    /\ draw_failed = {}
    /\ Len(Vehicles) >= 1

\* the call just made is `op` on a device of kind `kind`
Called(op, kind) ==
    /\ last_call'.op = op
    /\ last_call'.device[1] = kind

\* C31: reading an occupancy sensor never changes the sensor; a reading has
\* is_fault = true exactly when its value differs from the internal occupied
\* state; and whatever an earlier read drew, a later read returns what it
\* would have returned without the earlier one
C31_OccupancyNoiseIsTransient ==
    /\ [](\A sp \in DOMAIN sensor_network.occupancy_sensors :
            \A n1, n2 \in BOOLEAN :
                LET s == sensor_network.occupancy_sensors[sp]
                IN  /\ OccupancySensorRead(s, n1).sensor = s
                    /\ OccupancySensorRead(OccupancySensorRead(s, n1).sensor,
                                           n2).reading
                          = OccupancySensorRead(s, n2).reading)
    /\ [][Called("read", "spot") =>
            /\ sensor_network' = sensor_network
            /\ last_call'.reading.is_fault
                  <=> (last_call'.reading.value
                         # sensor_network.occupancy_sensors[
                               last_call'.device[2]].is_occupied)]_vars

C31_Witness ==
    /\ last_call.op = "read"
    /\ last_call.device[1] = "spot"
    /\ last_call.reading.is_fault
    /\ ~last_call.reading.value
    /\ sensor_network.occupancy_sensors[last_call.device[2]].is_occupied

\* every charger reading with failed = true reports charging = false and
\* power_kw = 0
FailedChargerReadsIdle ==
    Called("read", "charger") =>
        (last_call'.reading.value.failed =>
            /\ ~last_call'.reading.value.charging
            /\ last_call'.reading.value.power_kw = 0
            /\ last_call'.reading.is_fault)

\* a failed gate ignores set_state and reads closed
FailedGateIsInert ==
    /\ (Called("set_state", "gate")
          /\ sensor_network.gates[last_call'.device[2]].is_failed)
         => sensor_network' = sensor_network
    /\ Called("read", "gate") =>
         (last_call'.reading.is_fault => ~last_call'.reading.value)

\* start_charging was just called on a charger that was failed
StartedOnFailed ==
    /\ Called("start_charging", "charger")
    /\ sensor_network.chargers[last_call'.device[2]].is_failed

\* C32 as stated: every charger reading with failed = true reports charging =
\* false and power_kw = 0, start_charging on a failed charger leaves the
\* charger not charging, and a failed gate ignores set_state and reads closed
\* (a charger that was charging when the failure was injected keeps
\* is_charging = true and its power output through start_charging)
C32_FailedDevicesAreInert ==
    [][/\ FailedChargerReadsIdle
       /\ FailedGateIsInert
       /\ StartedOnFailed =>
            /\ ~sensor_network'.chargers[last_call'.device[2]].is_charging
            /\ sensor_network'.chargers[last_call'.device[2]].power_output = 0]_vars

\* C32, amended: every charger reading with failed = true reports charging =
\* false and power_kw = 0, start_charging on a failed charger changes nothing
\* and every reading of the charger after it reports charging = false and
\* power_kw = 0, and a failed gate ignores set_state and reads closed
C32_FailedDevicesReadInert ==
    [][/\ FailedChargerReadsIdle
       /\ FailedGateIsInert
       /\ StartedOnFailed =>
            /\ sensor_network' = sensor_network
            /\ \A draw \in BOOLEAN :
                  LET r == ChargerSensorRead(
                               sensor_network'.chargers[last_call'.device[2]], draw)
                  IN  /\ ~r.reading.value.charging
                      /\ r.reading.value.power_kw = 0]_vars

C32_Witness ==
    /\ last_call.op = "start_charging"
    /\ sensor_network.chargers[last_call.device[2]].is_failed
    /\ sensor_network.chargers[last_call.device[2]].is_connected
    /\ sensor_network.chargers[last_call.device[2]].is_charging
    /\ sensor_network.gates[0].is_failed
    /\ sensor_network.gates[0].is_open

\* the devices scheduled to fail at the step just run are flagged in its
\* readings and reported in its faults
InjectionSeenInItsStep ==
    \A d \in {<<"charger", 0>>, <<"gate", 0>>} :
        (current_step >= 1 /\ current_step =
            (IF d[1] = "charger" THEN config.charger_failure_step
                                 ELSE config.gate_failure_step))
        => /\ ReadingOf(d).is_fault
           /\ \E k \in StepFaults :
                 /\ faults_detected[k].affected_component = d
                 /\ faults_detected[k].fault_type = KindFaultType(d[1])

\* C33: the stages of a step run in the order injection, arrival, sensor
\* read, charge advance, controller, fault detection: a failure scheduled for
\* step S is flagged in the readings and the faults of step S; the controller
\* decides on the readings of its own step; a vehicle that arrives in step k
\* is processed by the controller in step k (admitted when admission is
\* possible and a spot is open); and a vehicle whose charge reaches its
\* target in the charge advance of step n leaves CHARGING in step n
C33_StageOrder ==
    /\ []InjectionSeenInItsStep
    /\ [][current_step' # current_step =>
            /\ \A c \in DOMAIN sensor_network'.chargers :
                  DictGet(depot_state'.charger_status[c], "failed", FALSE)
                      = sensor_network'.chargers[c].is_failed
            /\ \A i \in DOMAIN vm'.vehicles :
                  /\ (i \notin DOMAIN Vehicles) =>
                        /\ vm'.vehicles[i].arrival_time = current_step'
                        /\ (CanAdmitVehicle(depot_state') /\ OpenSpots(i) # {})
                              => vm'.vehicles[i].state = "entering"
                  /\ (/\ i \in DOMAIN Vehicles
                      /\ Vehicles[i].state = "charging"
                      /\ Vehicles[i].charge_level < Vehicles[i].target_charge
                      /\ Vehicles[i].charge_level + ChargeRate
                            >= Vehicles[i].target_charge) =>
                        /\ vm'.vehicles[i].charge_level
                              = Vehicles[i].charge_level + ChargeRate
                        /\ vm'.vehicles[i].state = "exiting"]_vars

C33_Witness ==
    /\ current_step >= 1
    /\ current_step = config.charger_failure_step
    /\ \E i, j \in DOMAIN Vehicles :
          /\ Vehicles[i].state = "departed"
          /\ Vehicles[i].charge_level = TargetCharge
          /\ Vehicles[i].departure_time = current_step
          /\ Vehicles[j].arrival_time = current_step
          /\ Vehicles[j].state = "entering"

\* the vehicles that hold a spot
SpotHolders == {i \in DOMAIN Vehicles : Vehicles[i].assigned_spot # NONE}

\* C34: the registry's spot map and the vehicles' fields agree: spot s is
\* mapped to vehicle v iff v is registered and v.assigned_spot = s; hence
\* every spot has at most one claimant and the vehicles holding a spot are
\* never more than num_spots
C34_SpotMapAgreesWithFields ==
    /\ DOMAIN vm.vehicle_positions \subseteq 0 .. (config.num_spots - 1)
    /\ \A s \in 0 .. (config.num_spots - 1) :
          /\ \A v \in 1 .. (MaxVehicles + 1) :
                (DictGet(vm.vehicle_positions, s, NONE) = v)
                    <=> (v \in DOMAIN Vehicles /\ Vehicles[v].assigned_spot = s)
          /\ Cardinality(Claimants(s)) <= 1
    /\ \A i \in SpotHolders : Vehicles[i].assigned_spot \in 0 .. (config.num_spots - 1)
    /\ Cardinality(SpotHolders) <= config.num_spots

C34_Witness ==
    \E i, j \in DOMAIN Vehicles :
        /\ Vehicles[i].state = "departed"
        /\ Vehicles[i].assigned_spot = NONE
        /\ Vehicles[j].assigned_spot # NONE
        /\ DictGet(vm.vehicle_positions, Vehicles[j].assigned_spot, NONE) = j
        /\ \E s \in DOMAIN vm.vehicle_positions : vm.vehicle_positions[s] = NONE

\* C35: vehicle state and held resources are consistent: a vehicle in
\* ENTERING, PARKING, CHARGING or EXITING holds a spot; a vehicle in CHARGING
\* or EXITING has an assigned charger; a vehicle in APPROACHING or DEPARTED
\* holds no spot; departure_time is set iff the vehicle is DEPARTED
C35_StateMatchesResources ==
    \A i \in DOMAIN Vehicles :
        LET v == Vehicles[i]
        IN  /\ v.state \in {"entering", "parking", "charging", "exiting"}
                  => v.assigned_spot # NONE
            /\ v.state \in {"charging", "exiting"} => v.assigned_charger # NONE
            /\ v.state \in {"approaching", "departed"} => v.assigned_spot = NONE
            /\ (v.departure_time # NONE) <=> (v.state = "departed")

C35_Witness ==
    \E i, j \in DOMAIN Vehicles :
        /\ Vehicles[i].state = "departed"
        /\ Vehicles[i].departure_time # NONE
        /\ Vehicles[i].assigned_spot = NONE
        /\ Vehicles[j].state = "charging"
        /\ Vehicles[j].arrival_time >= 1
        /\ Vehicles[j].assigned_spot # NONE
        /\ Vehicles[j].assigned_charger # NONE

StepsLeft(v) ==
    LET missing == IF v.charge_level >= v.target_charge THEN 0
                   ELSE (v.target_charge - v.charge_level + ChargeRate - 1)
                            \div ChargeRate
    IN  CASE v.state = "entering" -> missing + 3
          [] v.state = "parking" -> missing + 2
          [] v.state = "charging" -> IF missing = 0 THEN 2 ELSE missing + 1
          [] v.state = "exiting" -> 1
          [] OTHER -> 0

OnTheWay(v) == v.state \in {"entering", "parking", "charging", "exiting"}

\* C37: in a run in which no charger fails, a vehicle that has reached
\* ENTERING gets one step closer to DEPARTED in every step (PARKING, then
\* CHARGING, then one charge advance per step up to the target, then
\* EXITING, then DEPARTED), so it is DEPARTED a bounded number of steps
\* later, and a DEPARTED vehicle holds no spot and no spot is mapped to it
C37_AdmittedVehicleDeparts ==
    /\ [][(/\ current_step' # current_step
           /\ \A c \in DOMAIN sensor_network'.chargers :
                 ~sensor_network'.chargers[c].is_failed)
          => \A i \in DOMAIN Vehicles :
                OnTheWay(Vehicles[i]) =>
                    /\ StepsLeft(vm'.vehicles[i]) = StepsLeft(Vehicles[i]) - 1
                    /\ (StepsLeft(vm'.vehicles[i]) = 0)
                          <=> (vm'.vehicles[i].state = "departed")]_vars
    /\ [](\A i \in DOMAIN Vehicles :
            Vehicles[i].state = "departed" =>
                /\ Vehicles[i].assigned_spot = NONE
                /\ \A s \in DOMAIN vm.vehicle_positions :
                      vm.vehicle_positions[s] # i)

C37_Witness ==
    \E i \in DOMAIN Vehicles :
        /\ Vehicles[i].state = "departed"
        /\ Vehicles[i].departure_time = Vehicles[i].arrival_time + 15
        /\ Vehicles[i].charge_level = TargetCharge
        /\ Vehicles[i].assigned_spot = NONE
        /\ \E s \in DOMAIN vm.vehicle_positions : vm.vehicle_positions[s] = NONE

\* the steps in whose readings a gate or a charger was flagged failed
StickySteps ==
    {faults_detected[k].detected_at :
        k \in {j \in DOMAIN faults_detected :
                  faults_detected[j].fault_type \in {"charger_failure", "gate_stuck"}}}

\* C38: if a gate or a charger is failed in the readings of step S, the run
\* executes no step after S + 10, whatever max_steps is
C38_StickyFailureBoundsRun ==
    \A S \in StickySteps : current_step <= S + FaultLimit

C38_Witness ==
    /\ pc = "done"
    /\ StickySteps # {}
    /\ \A S \in StickySteps : S >= current_step - FaultLimit
    /\ current_step - FaultLimit \in StickySteps
    /\ current_step < config.max_steps
    /\ Len(faults_detected) = FaultLimit + 1

\* vehicle i was CHARGING before the step just taken, its charge after the
\* step's advance is at or over its target, and the step's snapshot reports
\* its charger failed
CompleteOnFailedCharger(i) ==
    /\ Vehicles[i].state = "charging"
    /\ Min(FullCharge, Vehicles[i].charge_level + ChargeRate)
          >= Vehicles[i].target_charge
    /\ ReportedFailed(depot_state', Vehicles[i].assigned_charger)

\* C39: a CHARGING vehicle whose charge is at or over its target in a step
\* in which its charger is reported failed moves to EXITING, with a
\* stop_charging action for its charger and no fault_response action for
\* the vehicle
C39_CompletionBeforeFailure ==
    [][current_step' # current_step =>
          \A i \in DOMAIN Vehicles :
              CompleteOnFailedCharger(i) =>
                  /\ vm'.vehicles[i].state = "exiting"
                  /\ \E k \in DOMAIN control_actions' :
                        /\ control_actions'[k].action_type = "charger_control"
                        /\ control_actions'[k].target
                              = <<"charger", Vehicles[i].assigned_charger>>
                        /\ control_actions'[k].command = <<"stop_charging">>
                  /\ FaultResponses(control_actions', Vehicles[i].vehicle_id)
                        = {}]_vars

C39_Witness ==
    \E i \in DOMAIN Vehicles :
        /\ Vehicles[i].state = "exiting"
        /\ Vehicles[i].charge_level = TargetCharge
        /\ ReportedFailed(depot_state, Vehicles[i].assigned_charger)
        /\ current_step = 1

\* every charger is reported failed in depot state ds
AllChargersReportedFailed(ds) ==
    \A c \in DOMAIN ds.charger_status : ReportedFailed(ds, c)

\* C40: once every charger is reported failed, admission is closed for the
\* rest of the run: in every later step every charger is still reported
\* failed, no vehicle moves to ENTERING, no spot is newly claimed and no gate
\* open action is emitted
C40_AdmissionClosesForGood ==
    [][(current_step' # current_step /\ current_step >= 1
            /\ AllChargersReportedFailed(depot_state))
       => /\ AllChargersReportedFailed(depot_state')
          /\ \A i \in DOMAIN vm'.vehicles :
                /\ vm'.vehicles[i].state # "entering"
                /\ vm'.vehicles[i].assigned_spot # NONE
                      => /\ i \in DOMAIN Vehicles
                         /\ Vehicles[i].assigned_spot = vm'.vehicles[i].assigned_spot
          /\ \A k \in DOMAIN control_actions' :
                ~(/\ control_actions'[k].action_type = "gate_control"
                  /\ control_actions'[k].command = <<"open">>)]_vars

C40_Witness ==
    /\ current_step >= 2
    /\ AllChargersReportedFailed(depot_state)
    /\ \E i \in DOMAIN Vehicles :
          /\ Vehicles[i].state = "approaching"
          /\ Vehicles[i].arrival_time < current_step
          /\ Vehicles[i].assigned_spot = NONE
    /\ \A k \in DOMAIN control_actions :
          control_actions[k].action_type # "gate_control"

====
